---------------------------- MODULE Spec2Model ----------------------------
(***************************************************************************)
(* ReqSnake: requirement records linked into a parent/child graph, the     *)
(* validators that run over a parsed collection (duplicate ids, cycles,    *)
(* completion consistency), the diff of two collections and the entry      *)
(* points that persist or render a collection.                             *)
(***************************************************************************)
EXTENDS Integers, Sequences, FiniteSets, TLC

(***************************************************************************)
(* Bounds of the model.                                                    *)
(***************************************************************************)
\* Largest number of records in a validated collection.
MaxReqs == 3

\* Largest number of records in each of the two lists given to the diff.
MaxDiffLen == 2

\* Largest number of quoted blocks in the documentation pages.
MaxDocBlocks == 2

\* Requirement ids; comparison of ids is string equality, so "REQ-1" and
\* "req-1" are two ids.
Ids == {"REQ-1", "req-1", "REQ-2"}

\* Source documents, in the order the file discovery hands them over.
Files == <<"a.md", "b.md">>

VARIABLES
    parsed_requirements,  \* the collection handed to validate_requirements
    outcome,              \* what validate_requirements did: returned or raised
    old,                  \* diff_requirements: the previous list of requirements
    new,                  \* diff_requirements: the current list of requirements
    diff,                 \* the dict diff_requirements returned
    docs,                 \* the documentation pages, each a list of quoted blocks
    lockfile,             \* reqsnake.lock
    files,                \* the generated files on_nav appended to the build
    nav_items,            \* the items of the navigation handed to on_nav
    run,                  \* the last command: the checks it passed, what it did
    text,                 \* a Markdown text, as a sequence of characters
    typed,                \* what was typed into the text, piece by piece
    file_list,            \* the (file_path, content) pairs handed to the parser
    parsed,               \* what the parser did with the text or the files
    snapshot,             \* the flattened form of the list new
    restored,             \* the list read back from snapshot
    all_requirements,     \* the records a RequirementLookup is built from
    generator,            \* a RequirementPageGenerator: its lookup and its lines
    contents,             \* what each call of generate returned, in call order
    saves,                \* each process saving the lockfile: where it is in _save_lockfile
    linked,               \* the temporary file the name reqsnake.lock now names, 0 for none
    observed              \* a reader of reqsnake.lock: the file it opened, what it read

validation_vars == <<parsed_requirements, outcome>>
diff_vars == <<old, new, diff>>
run_vars == <<docs, lockfile, files, nav_items, run>>
text_vars == <<text, typed, file_list, parsed>>
snapshot_vars == <<snapshot, restored>>
page_vars == <<all_requirements, generator, contents>>
save_vars == <<saves, linked, observed>>
vars == <<parsed_requirements, outcome, old, new, diff,
          docs, lockfile, files, nav_items, run,
          text, typed, file_list, parsed, snapshot, restored,
          all_requirements, generator, contents,
          saves, linked, observed>>

(***************************************************************************)
(* Data model (models.py).                                                 *)
(***************************************************************************)
Requirement(req_id, description, critical, parents, completed) ==
    [req_id |-> req_id, description |-> description, critical |-> critical,
     parents |-> parents, completed |-> completed]

ParsedRequirement(requirement, source_file) ==
    [requirement |-> requirement, source_file |-> source_file]

\* Outcomes of a call: a normal return, or the error raised.
Returned == [kind |-> "returned"]

DuplicateRequirementError(req_id, source_file, first_file) ==
    [kind |-> "DuplicateRequirementError", req_id |-> req_id,
     source_file |-> source_file, first_file |-> first_file]

CircularDependencyError(path) ==
    [kind |-> "CircularDependencyError", path |-> path]

CompletionValidationError(errors) ==
    [kind |-> "CompletionValidationError", errors |-> errors]

(***************************************************************************)
(* validate_no_duplicate_ids (validator.py).  seen_ids maps each id met so *)
(* far to the source file of the record that brought it.                   *)
(***************************************************************************)
RECURSIVE validate_no_duplicate_ids_from(_, _, _)
validate_no_duplicate_ids_from(prs, i, seen_ids) ==
    IF i > Len(prs) THEN Returned
    ELSE LET req_id == prs[i].requirement.req_id
             source_file == prs[i].source_file
         IN  IF req_id \in DOMAIN seen_ids
             THEN DuplicateRequirementError(req_id, source_file, seen_ids[req_id])
             ELSE validate_no_duplicate_ids_from(
                      prs, i + 1,
                      [k \in DOMAIN seen_ids \cup {req_id} |->
                          IF k = req_id THEN source_file ELSE seen_ids[k]])

\* A variant that compares ids ignoring letter case.
FoldCase(id) == IF id = "req-1" THEN "REQ-1" ELSE id

validate_no_duplicate_ids_nocase(prs) ==
    validate_no_duplicate_ids_from(
        [i \in DOMAIN prs |->
            [prs[i] EXCEPT !.requirement.req_id = FoldCase(@)]], 1, <<>>)

validate_no_duplicate_ids(prs) ==
    validate_no_duplicate_ids_from(prs, 1, <<>>)

(***************************************************************************)
(* validate_no_cycles (validator.py).  adj maps a parent id to the ids of  *)
(* the records that declare it as a parent, in collection order.           *)
(***************************************************************************)
\* adj.setdefault-like step: "if k not in adj: adj[k] = []".
WithKey(adj, k) ==
    IF k \in DOMAIN adj THEN adj
    ELSE [x \in DOMAIN adj \cup {k} |-> IF x = k THEN <<>> ELSE adj[x]]

RECURSIVE add_to_parents(_, _, _, _)
add_to_parents(adj, req_id, parents, j) ==
    IF j > Len(parents) THEN adj
    ELSE LET a == WithKey(adj, parents[j])
         IN  add_to_parents([a EXCEPT ![parents[j]] = Append(@, req_id)],
                            req_id, parents, j + 1)

\* A variant that links a record to its first declared parent only.
RECURSIVE build_adj_first_parent(_, _, _)
build_adj_first_parent(requirements, i, adj) ==
    IF i > Len(requirements) THEN adj
    ELSE LET req == requirements[i]
         IN  build_adj_first_parent(requirements, i + 1,
                 add_to_parents(WithKey(adj, req.req_id), req.req_id,
                                IF req.parents = <<>> THEN <<>>
                                ELSE <<req.parents[1]>>, 1))

RECURSIVE build_adj(_, _, _)
build_adj(requirements, i, adj) ==
    IF i > Len(requirements) THEN adj
    ELSE LET req == requirements[i]
         IN  build_adj(requirements, i + 1,
                       add_to_parents(WithKey(adj, req.req_id), req.req_id,
                                      req.parents, 1))

\* adj.get(req_id, [])
AdjGet(adj, req_id) == IF req_id \in DOMAIN adj THEN adj[req_id] ELSE <<>>

\* The traversal state: the path list, the visiting and visited sets,
\* whether CircularDependencyError is propagating, and the call stack of
\* visit: depth counts the calls of visit that have not returned, deepest
\* is the largest depth so far.
RECURSIVE visit(_, _, _)
RECURSIVE visit_children(_, _, _, _)
visit(adj, req_id, st) ==
    LET entered == [st EXCEPT !.visiting = @ \cup {req_id},
                              !.path = Append(@, req_id),
                              !.depth = @ + 1,
                              !.deepest = IF st.depth + 1 > @
                                          THEN st.depth + 1 ELSE @]
        after == visit_children(adj, req_id, 1, entered)
    IN  IF after.raised THEN after
        ELSE [after EXCEPT !.path = SubSeq(@, 1, Len(@) - 1),
                           !.visiting = @ \ {req_id},
                           !.visited = @ \cup {req_id},
                           !.depth = @ - 1]

\* A variant without the visited/visiting distinction: any node met again
\* counts as a cycle.
RECURSIVE visit_children_strict(_, _, _, _)
visit_children_strict(adj, req_id, k, st) ==
    LET children == AdjGet(adj, req_id)
    IN  IF k > Len(children) THEN st
        ELSE LET child_id == children[k]
             IN  IF child_id \in st.visiting \cup st.visited
                 THEN [st EXCEPT !.path = Append(@, child_id), !.raised = TRUE]
                 ELSE LET s == visit(adj, child_id, st)
                      IN  IF s.raised THEN s
                          ELSE visit_children_strict(adj, req_id, k + 1, s)

visit_children(adj, req_id, k, st) ==
    LET children == AdjGet(adj, req_id)
    IN  IF k > Len(children) THEN st
        ELSE LET child_id == children[k]
             IN  IF child_id \in st.visiting
                 THEN [st EXCEPT !.path = Append(@, child_id), !.raised = TRUE]
                 ELSE IF child_id \notin st.visited
                 THEN LET s == visit(adj, child_id, st)
                      IN  IF s.raised THEN s
                          ELSE visit_children(adj, req_id, k + 1, s)
                 ELSE visit_children(adj, req_id, k + 1, st)

\* A variant that starts the traversal from the first requirement only.
visit_first_only(adj, requirements, i, st) ==
    IF i > Len(requirements) THEN st
    ELSE visit(adj, requirements[i].req_id, [st EXCEPT !.path = <<>>])

RECURSIVE visit_every_unvisited(_, _, _, _)
visit_every_unvisited(adj, requirements, i, st) ==
    IF i > Len(requirements) THEN st
    ELSE IF requirements[i].req_id \notin st.visited
    THEN LET s == visit(adj, requirements[i].req_id, [st EXCEPT !.path = <<>>])
         IN  IF s.raised THEN s
             ELSE visit_every_unvisited(adj, requirements, i + 1, s)
    ELSE visit_every_unvisited(adj, requirements, i + 1, st)

validate_no_cycles(requirements) ==
    LET done == visit_every_unvisited(
                    build_adj(requirements, 1, <<>>), requirements, 1,
                    [path |-> <<>>, visiting |-> {}, visited |-> {},
                     raised |-> FALSE, depth |-> 0, deepest |-> 0])
    IN  IF done.raised THEN CircularDependencyError(done.path) ELSE Returned

(***************************************************************************)
(* validate_completed_children (validator.py).                             *)
(***************************************************************************)
\* {r.req_id: r for r in requirements}: a later record with the same id
\* replaces the earlier one.
req_dict_of(requirements) ==
    [k \in {requirements[i].req_id : i \in DOMAIN requirements} |->
        LET last == CHOOSE i \in DOMAIN requirements :
                        /\ requirements[i].req_id = k
                        /\ \A j \in DOMAIN requirements :
                               requirements[j].req_id = k => j <= i
        IN  requirements[last]]

\* A variant that stops at the first incomplete child of a requirement.
RECURSIVE incomplete_children_first(_, _, _, _, _)
incomplete_children_first(req_dict, req_id, children, k, errors) ==
    IF k > Len(children) THEN errors
    ELSE LET child_id == children[k]
             found == child_id \in DOMAIN req_dict
         IN  IF found /\ ~req_dict[child_id].completed
             THEN Append(errors, <<req_id, child_id>>)
             ELSE incomplete_children_first(req_dict, req_id, children, k + 1,
                                            errors)

RECURSIVE incomplete_children(_, _, _, _, _)
incomplete_children(req_dict, req_id, children, k, errors) ==
    IF k > Len(children) THEN errors
    ELSE LET child_id == children[k]
             found == child_id \in DOMAIN req_dict
         IN  incomplete_children(
                 req_dict, req_id, children, k + 1,
                 IF found /\ ~req_dict[child_id].completed
                 THEN Append(errors, <<req_id, child_id>>) ELSE errors)

RECURSIVE collect_errors(_, _, _, _, _)
collect_errors(req_dict, children_map, requirements, i, errors) ==
    IF i > Len(requirements) THEN errors
    ELSE LET req == requirements[i]
         IN  collect_errors(
                 req_dict, children_map, requirements, i + 1,
                 IF req.completed
                 THEN incomplete_children(req_dict, req.req_id,
                          AdjGet(children_map, req.req_id), 1, errors)
                 ELSE errors)

validate_completed_children(requirements) ==
    LET req_dict == req_dict_of(requirements)
        children_map == build_adj(requirements, 1, <<>>)
        errors == collect_errors(req_dict, children_map, requirements, 1, <<>>)
    IN  IF errors # <<>> THEN CompletionValidationError(errors) ELSE Returned

(***************************************************************************)
(* validate_requirements (validator.py): the three checks in order, the    *)
(* first error raised ends the pass.                                       *)
(***************************************************************************)
\* A variant that runs the completion check before the cycle check.
validate_requirements_completion_first(prs) ==
    IF prs = <<>> THEN Returned
    ELSE LET requirements == [i \in DOMAIN prs |-> prs[i].requirement]
             dup == validate_no_duplicate_ids(prs)
         IN  IF dup.kind # "returned" THEN dup
             ELSE LET done == validate_completed_children(requirements)
                  IN  IF done.kind # "returned" THEN done
                      ELSE validate_no_cycles(requirements)

validate_requirements(prs) ==
    IF prs = <<>> THEN Returned
    ELSE LET requirements == [i \in DOMAIN prs |-> prs[i].requirement]
             dup == validate_no_duplicate_ids(prs)
         IN  IF dup.kind # "returned" THEN dup
             ELSE LET cyc == validate_no_cycles(requirements)
                  IN  IF cyc.kind # "returned" THEN cyc
                      ELSE validate_completed_children(requirements)

(***************************************************************************)
(* diff_requirements (utils.py).  A dict built by {r.req_id: r for r in l} *)
(* keeps its keys in the order they first appear and, for a key that       *)
(* appears again, the value inserted last.                                 *)
(***************************************************************************)
EmptyDict == [keys |-> <<>>, at |-> <<>>]

DictSet(d, k, v) ==
    [keys |-> IF k \in DOMAIN d.at THEN d.keys ELSE Append(d.keys, k),
     at |-> [x \in DOMAIN d.at \cup {k} |-> IF x = k THEN v ELSE d.at[x]]]

\* A dict that keeps the value inserted first.
RECURSIVE dict_by_req_id_first(_, _, _)
dict_by_req_id_first(l, i, d) ==
    IF i > Len(l) THEN d
    ELSE dict_by_req_id_first(l, i + 1,
             IF l[i].req_id \in DOMAIN d.at THEN d
             ELSE DictSet(d, l[i].req_id, l[i]))

RECURSIVE dict_by_req_id(_, _, _)
dict_by_req_id(l, i, d) ==
    IF i > Len(l) THEN d
    ELSE dict_by_req_id(l, i + 1, DictSet(d, l[i].req_id, l[i]))

\* [d[rid] for rid in kept], kept being keys of d in d's key order
Values(d, kept) == [n \in DOMAIN kept |-> d.at[kept[n]]]

\* The generated __eq__ of the Requirement dataclass: the fields compared in
\* declaration order, parents as a list.
requirement_eq(a, b) ==
    /\ a.req_id = b.req_id
    /\ a.description = b.description
    /\ a.critical = b.critical
    /\ a.parents = b.parents
    /\ a.completed = b.completed

\* A variant that compares parents as a set.
requirement_eq_unordered(a, b) ==
    /\ a.req_id = b.req_id
    /\ a.description = b.description
    /\ a.critical = b.critical
    /\ {a.parents[k] : k \in DOMAIN a.parents} =
           {b.parents[k] : k \in DOMAIN b.parents}
    /\ a.completed = b.completed

added(old_dict, new_dict) ==
    Values(new_dict,
           SelectSeq(new_dict.keys, LAMBDA rid : rid \notin DOMAIN old_dict.at))

removed(old_dict, new_dict) ==
    Values(old_dict,
           SelectSeq(old_dict.keys, LAMBDA rid : rid \notin DOMAIN new_dict.at))

\* A variant of changed that compares parents without their order.
changed_unordered(old_dict, new_dict) ==
    Values(new_dict,
           SelectSeq(new_dict.keys,
               LAMBDA rid : /\ rid \in DOMAIN old_dict.at
                            /\ ~requirement_eq_unordered(new_dict.at[rid],
                                                         old_dict.at[rid])))

changed(old_dict, new_dict) ==
    Values(new_dict,
           SelectSeq(new_dict.keys,
               LAMBDA rid : /\ rid \in DOMAIN old_dict.at
                            /\ ~requirement_eq(new_dict.at[rid],
                                               old_dict.at[rid])))

DiffOf(old_dict, new_dict) ==
    [ADDED |-> added(old_dict, new_dict),
     REMOVED |-> removed(old_dict, new_dict),
     CHANGED |-> changed(old_dict, new_dict)]

\* Variants of diff_requirements: parents compared without their order; the
\* old dict keeping the first record of an id.
diff_requirements_unordered(old_list, new_list) ==
    LET old_dict == dict_by_req_id(old_list, 1, EmptyDict)
        new_dict == dict_by_req_id(new_list, 1, EmptyDict)
    IN  [DiffOf(old_dict, new_dict)
             EXCEPT !.CHANGED = changed_unordered(old_dict, new_dict)]

diff_requirements_first_old(old_list, new_list) ==
    DiffOf(dict_by_req_id_first(old_list, 1, EmptyDict),
           dict_by_req_id(new_list, 1, EmptyDict))

diff_requirements(old_list, new_list) ==
    DiffOf(dict_by_req_id(old_list, 1, EmptyDict),
           dict_by_req_id(new_list, 1, EmptyDict))

(***************************************************************************)
(* Text.  A str is a sequence of characters, each a one-character string;  *)
(* a code point above 127 is written by its name, "U+00C9".                *)
(***************************************************************************)
\* The printable ASCII characters in code order, from the space (32); the
\* grave accent (96) is written by its name.
Printable ==
    <<" ", "!", "\"", "#", "$", "%", "&", "'", "(", ")", "*", "+", ",",
      "-", ".", "/", "0", "1", "2", "3", "4", "5", "6", "7", "8", "9", ":",
      ";", "<", "=", ">", "?", "@", "A", "B", "C", "D", "E", "F", "G", "H",
      "I", "J", "K", "L", "M", "N", "O", "P", "Q", "R", "S", "T", "U", "V",
      "W", "X", "Y", "Z", "[", "\\", "]", "^", "_", "U+0060", "a", "b",
      "c",
      "d", "e", "f", "g", "h", "i", "j", "k", "l", "m", "n", "o", "p", "q",
      "r", "s", "t", "u", "v", "w", "x", "y", "z", "{", "|", "}", "~">>

UpperCase == <<"A", "B", "C", "D", "E", "F", "G", "H", "I", "J", "K", "L",
               "M", "N", "O", "P", "Q", "R", "S", "T", "U", "V", "W", "X", "Y", "Z">>

LowerCase == <<"a", "b", "c", "d", "e", "f", "g", "h", "i", "j", "k", "l",
               "m", "n", "o", "p", "q", "r", "s", "t", "u", "v", "w", "x", "y", "z">>

Digits == {"0", "1", "2", "3", "4", "5", "6", "7", "8", "9"}

\* Two letters outside ASCII: E with acute accent, capital and small.
NonAsciiUpper == "U+00C9"
NonAsciiLower == "U+00E9"
\* ARABIC-INDIC DIGIT ONE, a digit to \d that is not ASCII.
NonAsciiDigit == "U+0661"

IndexIn(c, alphabet) == CHOOSE i \in DOMAIN alphabet : alphabet[i] = c

IsIn(c, alphabet) == \E i \in DOMAIN alphabet : alphabet[i] = c

ord(c) ==
    IF IsIn(c, Printable) THEN 31 + IndexIn(c, Printable)
    ELSE IF c = "\t" THEN 9
    ELSE IF c = "\n" THEN 10
    ELSE IF c = "\r" THEN 13
    ELSE IF c = NonAsciiUpper THEN 201
    ELSE IF c = NonAsciiLower THEN 233
    ELSE 1633

\* The characters str.strip, str.lstrip and str.rstrip remove.
Whitespace == {" ", "\t", "\n", "\r"}

RECURSIVE lstrip(_)
lstrip(s) ==
    IF s # <<>> /\ Head(s) \in Whitespace THEN lstrip(Tail(s)) ELSE s

RECURSIVE rstrip(_)
rstrip(s) ==
    IF s # <<>> /\ s[Len(s)] \in Whitespace
    THEN rstrip(SubSeq(s, 1, Len(s) - 1)) ELSE s

strip(s) == rstrip(lstrip(s))

lower(s) ==
    [i \in DOMAIN s |->
        IF IsIn(s[i], UpperCase) THEN LowerCase[IndexIn(s[i], UpperCase)]
        ELSE IF s[i] = NonAsciiUpper THEN NonAsciiLower ELSE s[i]]

upper(s) ==
    [i \in DOMAIN s |->
        IF IsIn(s[i], LowerCase) THEN UpperCase[IndexIn(s[i], LowerCase)]
        ELSE IF s[i] = NonAsciiLower THEN NonAsciiUpper ELSE s[i]]

\* s[n:]
From(s, n) == SubSeq(s, n + 1, Len(s))

startswith(s, prefix) ==
    Len(s) >= Len(prefix) /\ SubSeq(s, 1, Len(prefix)) = prefix

\* s.split("\n"): the pieces between one newline and the next
split(s) ==
    LET newlines == {i \in DOMAIN s : s[i] = "\n"}
        cut(k) == IF k = 0 THEN 0
                  ELSE IF k > Cardinality(newlines) THEN Len(s) + 1
                  ELSE CHOOSE i \in newlines :
                           Cardinality({j \in newlines : j < i}) = k - 1
    IN  [k \in 1..(Cardinality(newlines) + 1) |->
            SubSeq(s, cut(k - 1) + 1, cut(k) - 1)]

\* The lines joined by "\n": the text a regular expression matched over them.
RECURSIVE join(_)
join(lines) ==
    IF lines = <<>> THEN <<>>
    ELSE IF Len(lines) = 1 THEN lines[1]
    ELSE (lines[1] \o <<"\n">>) \o join(Tail(lines))

\* s.find(sub, start), positions counted from 1; 0 when sub does not occur.
find(s, sub, start) ==
    LET found == {i \in start..(Len(s) - Len(sub) + 1) :
                     SubSeq(s, i, i + Len(sub) - 1) = sub}
    IN  IF found = {} THEN 0
        ELSE CHOOSE i \in found : \A j \in found : i <= j

(***************************************************************************)
(* parser.py.  Results of a call are records: a list returned, a           *)
(* requirement or None returned, or the exception raised, with the values  *)
(* its message carries and, for "raise ... from e", the exception e.       *)
(***************************************************************************)
NoRequirement == [kind |-> "None"]

ARequirement(requirement) == [kind |-> "requirement", value |-> requirement]

ReturnedList(requirements) == [kind |-> "returned", value |-> requirements]

\* why: "non-ASCII" or "format", the two messages of _validate_requirement_id
InvalidRequirementIdError(req_id, why) ==
    [kind |-> "InvalidRequirementIdError", req_id |-> req_id, why |-> why]

\* PluginError(f"Unknown attribute '{line.strip()}' in requirement {req_id}")
UnknownAttribute(line, req_id) ==
    [kind |-> "PluginError", what |-> "Unknown attribute",
     line |-> line, req_id |-> req_id]

\* ParseError(f"Duplicate parent ID '{parent_id}' in requirement '{req_id}' ...")
DuplicateParent(parent_id, req_id) ==
    [kind |-> "ParseError", what |-> "Duplicate parent ID",
     parent_id |-> parent_id, req_id |-> req_id]

\* ParseError(f"Failed to parse requirement block: {e}") from e
FailedToParseBlock(e) ==
    [kind |-> "ParseError", what |-> "Failed to parse requirement block",
     cause |-> e]

\* ParseError(f"Error in file '{file_path}': {e}") from e
ErrorInFile(file_path, e) ==
    [kind |-> "ParseError", what |-> "Error in file", file |-> file_path,
     cause |-> e]

\* The exception classes of exceptions.py, each with its base classes.
Bases(kind) ==
    CASE kind = "InvalidRequirementIdError" ->
             {"InvalidRequirementIdError", "ParseError", "ReqSnakeError",
              "PluginError"}
      [] kind = "UnknownAttributeError" ->
             {"UnknownAttributeError", "ParseError", "ReqSnakeError",
              "PluginError"}
      [] kind = "ParseError" -> {"ParseError", "ReqSnakeError", "PluginError"}
      [] kind = "PluginError" -> {"PluginError"}
      [] OTHER -> {kind}

\* "except classes as e" catches the result r
Catches(classes, r) == Bases(r.kind) \cap classes # {}

Raised(r) == r.kind \notin {"returned", "requirement", "None", "attributes"}

\* re.sub(r"<!--.*?-->", "", md_text, flags=re.DOTALL): from each opening
\* marker to the nearest closing marker after it, scanning left to right.
CommentMarkers == [open |-> <<"<", "!", "-", "-">>, close |-> <<"-", "-", ">">>]

\* A variant that runs to the last closing marker (a greedy .*).
find_last(s, sub, start) ==
    LET found == {i \in start..(Len(s) - Len(sub) + 1) :
                     SubSeq(s, i, i + Len(sub) - 1) = sub}
    IN  IF found = {} THEN 0
        ELSE CHOOSE i \in found : \A j \in found : i >= j

RECURSIVE remove_comments_greedy(_, _, _)
remove_comments_greedy(md_text, i, out) ==
    LET open == find(md_text, CommentMarkers.open, i)
        close == IF open = 0 THEN 0
                 ELSE find_last(md_text, CommentMarkers.close, open + Len(CommentMarkers.open))
    IN  IF close = 0 THEN out \o From(md_text, i - 1)
        ELSE remove_comments_greedy(md_text, close + Len(CommentMarkers.close),
                                    out \o SubSeq(md_text, i, open - 1))

\* i: where the scan stands; out: the text kept so far.  An opening marker
\* with no closing marker after it matches nothing, and then no later one
\* does either.
RECURSIVE remove_comments(_, _, _)
remove_comments(md_text, i, out) ==
    LET open == find(md_text, CommentMarkers.open, i)
        close == IF open = 0 THEN 0
                 ELSE find(md_text, CommentMarkers.close, open + Len(CommentMarkers.open))
    IN  IF close = 0 THEN out \o From(md_text, i - 1)
        ELSE remove_comments(md_text, close + Len(CommentMarkers.close),
                             out \o SubSeq(md_text, i, open - 1))

\* BLOCKQUOTE_PATTERN.findall: a line that starts with "> " and the lines
\* after it that start with ">", up to the first line that does not.
RECURSIVE block_end(_, _)
block_end(lines, k) ==
    IF k < Len(lines) /\ startswith(lines[k + 1], <<">">>)
    THEN block_end(lines, k + 1) ELSE k

RECURSIVE findall_blocks(_, _, _)
findall_blocks(lines, i, blocks) ==
    IF i > Len(lines) THEN blocks
    ELSE IF startswith(lines[i], <<">", " ">>)
    THEN LET k == block_end(lines, i)
         IN  findall_blocks(lines, k + 1,
                            Append(blocks, join(SubSeq(lines, i, k))))
    ELSE findall_blocks(lines, i + 1, blocks)

BLOCKQUOTE_PATTERN_findall(md_text) == findall_blocks(split(md_text), 1, <<>>)

\* [A-Za-z], [A-Za-z0-9_-] and \d of the pattern in _validate_requirement_id
Matches(c, class) ==
    CASE class = "[A-Za-z]" -> IsIn(c, UpperCase) \/ IsIn(c, LowerCase)
      [] class = "[A-Za-z0-9_-]" ->
             \/ IsIn(c, UpperCase) \/ IsIn(c, LowerCase)
             \/ c \in Digits \cup {"_", "-"}
      [] class = "\\d" -> c \in Digits \/ c = NonAsciiDigit

\* A variant of the pattern that ends in -\d* .
id_pattern_match_no_digits(req_id) ==
    \E k \in 2..Len(req_id) :
        /\ Matches(req_id[1], "[A-Za-z]")
        /\ \A j \in 2..(k - 1) : Matches(req_id[j], "[A-Za-z0-9_-]")
        /\ req_id[k] = "-"
        /\ \A j \in (k + 1)..Len(req_id) : Matches(req_id[j], "\\d")

\* re.match(r"^[A-Za-z][A-Za-z0-9_-]*-\d+$", req_id): the hyphen at k is
\* the one the backtracking settles on.
id_pattern_match(req_id) ==
    \E k \in 2..(Len(req_id) - 1) :
        /\ Matches(req_id[1], "[A-Za-z]")
        /\ \A j \in 2..(k - 1) : Matches(req_id[j], "[A-Za-z0-9_-]")
        /\ req_id[k] = "-"
        /\ \A j \in (k + 1)..Len(req_id) : Matches(req_id[j], "\\d")

_validate_requirement_id(req_id) ==
    IF \E i \in DOMAIN req_id : ord(req_id[i]) >= 128
    THEN InvalidRequirementIdError(req_id, "non-ASCII")
    ELSE IF ~id_pattern_match(req_id)
    THEN InvalidRequirementIdError(req_id, "format")
    ELSE NoRequirement

\* The flags and lists the attribute loop of _parse_single_requirement_block
\* carries from line to line.
Attributes(critical, completed, parents, seen_parents) ==
    [kind |-> "attributes", critical |-> critical, completed |-> completed,
     parents |-> parents, seen_parents |-> seen_parents]

ChildOf == <<"c", "h", "i", "l", "d", "-", "o", "f">>

\* A variant that compares the parent ids as written.
_process_child_of_line_as_written(line, req_id, attrs) ==
    LET after == lstrip(From(line, Len(ChildOf)))
        after2 == IF startswith(after, <<":">>) THEN lstrip(From(after, 1))
                  ELSE after
        parent_id == strip(after2)
        norm_parent_id == parent_id
    IN  IF parent_id = <<>> THEN attrs
        ELSE IF norm_parent_id \in attrs.seen_parents
        THEN DuplicateParent(parent_id, req_id)
        ELSE Attributes(attrs.critical, attrs.completed,
                        Append(attrs.parents, parent_id),
                        attrs.seen_parents \cup {norm_parent_id})

_process_child_of_line(line, req_id, attrs) ==
    LET after == lstrip(From(line, Len(ChildOf)))
        after2 == IF startswith(after, <<":">>) THEN lstrip(From(after, 1))
                  ELSE after
        parent_id == strip(after2)
        norm_parent_id == upper(parent_id)
    IN  IF parent_id = <<>> THEN attrs
        ELSE IF norm_parent_id \in attrs.seen_parents
        THEN DuplicateParent(parent_id, req_id)
        ELSE Attributes(attrs.critical, attrs.completed,
                        Append(attrs.parents, parent_id),
                        attrs.seen_parents \cup {norm_parent_id})

\* A variant that compares the line with the keywords as written.
_process_attribute_line_as_written(line, req_id, attrs) ==
    LET norm == strip(line)
    IN  IF norm = <<"c", "r", "i", "t", "i", "c", "a", "l">>
        THEN Attributes(TRUE, attrs.completed, attrs.parents, attrs.seen_parents)
        ELSE IF norm = <<"c", "o", "m", "p", "l", "e", "t", "e", "d">>
        THEN Attributes(attrs.critical, TRUE, attrs.parents, attrs.seen_parents)
        ELSE IF startswith(norm, ChildOf)
        THEN _process_child_of_line(line, req_id, attrs)
        ELSE UnknownAttribute(strip(line), req_id)

_process_attribute_line(line, req_id, attrs) ==
    LET norm == lower(strip(line))
    IN  IF norm = <<"c", "r", "i", "t", "i", "c", "a", "l">>
        THEN Attributes(TRUE, attrs.completed, attrs.parents, attrs.seen_parents)
        ELSE IF norm = <<"c", "o", "m", "p", "l", "e", "t", "e", "d">>
        THEN Attributes(attrs.critical, TRUE, attrs.parents, attrs.seen_parents)
        ELSE IF startswith(norm, ChildOf)
        THEN _process_child_of_line(line, req_id, attrs)
        ELSE UnknownAttribute(strip(line), req_id)

\* for line in lines[2:]: the loop ends at the first exception
RECURSIVE process_attributes(_, _, _, _)
process_attributes(lines, i, req_id, attrs) ==
    IF i > Len(lines) \/ Raised(attrs) THEN attrs
    ELSE process_attributes(lines, i + 1, req_id,
                            _process_attribute_line(lines[i], req_id, attrs))

\* [line[2:].strip() for line in block.split("\n") if line.startswith(">")]
\* and then [line for line in lines if line.strip()]
RECURSIVE quoted_lines(_, _, _)
quoted_lines(block_lines, i, lines) ==
    IF i > Len(block_lines) THEN lines
    ELSE LET line == strip(From(block_lines[i], 2))
         IN  quoted_lines(block_lines, i + 1,
                 IF startswith(block_lines[i], <<">">>) /\ strip(line) # <<>>
                 THEN Append(lines, line) ELSE lines)

\* A variant without the heuristic on the id line.
_parse_single_requirement_block_any_id(block) ==
    LET lines == quoted_lines(split(block), 1, <<>>)
        req_id == lines[1]
        valid == _validate_requirement_id(req_id)
        attrs == process_attributes(lines, 3, req_id,
                                    Attributes(FALSE, FALSE, <<>>, {}))
    IN  IF Len(lines) < 2 THEN NoRequirement
        ELSE IF Raised(valid) THEN valid
        ELSE IF Raised(attrs) THEN attrs
        ELSE ARequirement([req_id |-> req_id, description |-> lines[2],
                           critical |-> attrs.critical,
                           parents |-> attrs.parents,
                           completed |-> attrs.completed])

_parse_single_requirement_block(block) ==
    LET lines == quoted_lines(split(block), 1, <<>>)
        req_id == lines[1]
        valid == _validate_requirement_id(req_id)
        attrs == process_attributes(lines, 3, req_id,
                                    Attributes(FALSE, FALSE, <<>>, {}))
    IN  IF Len(lines) < 2 THEN NoRequirement
        ELSE IF \E i \in DOMAIN req_id : req_id[i] = " " THEN NoRequirement
        ELSE IF Raised(valid) THEN valid
        ELSE IF Raised(attrs) THEN attrs
        ELSE ARequirement([req_id |-> req_id, description |-> lines[2],
                           critical |-> attrs.critical,
                           parents |-> attrs.parents,
                           completed |-> attrs.completed])

\* A variant whose loop goes on to the next block after an invalid id.
RECURSIVE parse_blocks_skipping(_, _, _)
parse_blocks_skipping(blocks, i, requirements) ==
    IF i > Len(blocks) THEN ReturnedList(requirements)
    ELSE LET req == _parse_single_requirement_block(blocks[i])
         IN  IF req.kind = "InvalidRequirementIdError"
             THEN parse_blocks_skipping(blocks, i + 1, requirements)
             ELSE IF Raised(req) THEN req
             ELSE parse_blocks_skipping(blocks, i + 1,
                      IF req.kind = "requirement"
                      THEN Append(requirements, req.value) ELSE requirements)

\* The loop of parse_requirements_from_markdown over the blocks.
RECURSIVE parse_blocks(_, _, _)
parse_blocks(blocks, i, requirements) ==
    IF i > Len(blocks) THEN ReturnedList(requirements)
    ELSE LET req == _parse_single_requirement_block(blocks[i])
         IN  IF Raised(req)
             THEN IF Catches({"InvalidRequirementIdError",
                              "UnknownAttributeError"}, req)
                  THEN FailedToParseBlock(req) ELSE req
             ELSE parse_blocks(blocks, i + 1,
                      IF req.kind = "requirement"
                      THEN Append(requirements, req.value) ELSE requirements)

parse_requirements_from_markdown(md_text) ==
    parse_blocks(BLOCKQUOTE_PATTERN_findall(remove_comments(md_text, 1, <<>>)),
                 1, <<>>)

\* parse_requirements_from_files on the texts of the files: file_data[i] is
\* the pair (path, content), content a text.
RECURSIVE parse_texts_from(_, _, _)
parse_texts_from(file_data, i, all_parsed_reqs) ==
    IF i > Len(file_data) THEN ReturnedList(all_parsed_reqs)
    ELSE LET file_path == file_data[i].path
             reqs == parse_requirements_from_markdown(file_data[i].content)
         IN  IF Raised(reqs)
             THEN IF Catches({"ParseError"}, reqs)
                  THEN ErrorInFile(file_path, reqs) ELSE reqs
             ELSE parse_texts_from(file_data, i + 1,
                      all_parsed_reqs \o
                          [k \in DOMAIN reqs.value |->
                              ParsedRequirement(reqs.value[k], file_path)])

parse_requirements_from_file_texts(file_data) ==
    parse_texts_from(file_data, 1, <<>>)

(***************************************************************************)
(* reqsnake.py: the command-line tool.  Its Requirement keeps the ids of   *)
(* the child-of lines in a field named children; the model keeps them in   *)
(* parents, and the flattened form written to the lockfile has the key     *)
(* children.                                                               *)
(***************************************************************************)
ValueError(what) == [kind |-> "ValueError", what |-> what]

\* A quoted block is a requirement, or text with an invalid id, whose
\* parsing raises an error that the loop over the files reports.
BadBlock == [bad |-> TRUE]

RECURSIVE parse_from(_, _, _, _)
parse_from(file_data, i, all_parsed_reqs, error) ==
    IF i > Len(file_data) THEN [kind |-> "returned", value |-> all_parsed_reqs]
    ELSE LET file_path == file_data[i].path
             content == file_data[i].content
         IN  IF \E k \in DOMAIN content : content[k] = BadBlock
             THEN [kind |-> error, file |-> file_path]
             ELSE parse_from(file_data, i + 1,
                      all_parsed_reqs \o
                          [k \in DOMAIN content |->
                              ParsedRequirement(content[k], file_path)],
                      error)

\* parse_requirements_from_files of reqsnake.py
reqsnake_parse_requirements_from_files(file_data) ==
    parse_from(file_data, 1, <<>>, "ValueError")

\* parse_requirements_from_files of parser.py
parse_requirements_from_files(file_data) ==
    parse_from(file_data, 1, <<>>, "ParseError")

_validate_duplicate_ids(prs) ==
    LET dup == validate_no_duplicate_ids_from(prs, 1, <<>>)
    IN  IF dup.kind = "returned" THEN Returned
        ELSE [kind |-> "ValueError", what |-> "duplicate id",
              req_id |-> dup.req_id, source_file |-> dup.source_file,
              first_file |-> dup.first_file]

\* adj = {req.req_id: req.children for req in requirements}: each id mapped
\* to the ids its own child-of lines name.
_validate_no_cycles(requirements) ==
    LET adj == [k \in {requirements[i].req_id : i \in DOMAIN requirements} |->
                   req_dict_of(requirements)[k].parents]
        done == visit_every_unvisited(adj, requirements, 1,
                    [path |-> <<>>, visiting |-> {}, visited |-> {},
                     raised |-> FALSE, depth |-> 0, deepest |-> 0])
    IN  IF ~done.raised THEN Returned
        ELSE [kind |-> "ValueError", what |-> "cycle", path |-> done.path]

\* parent_to_children maps a parent id to the records naming it.
RECURSIVE _incomplete_children(_, _, _, _)
_incomplete_children(req_id, children, k, errors) ==
    IF k > Len(children) THEN errors
    ELSE _incomplete_children(req_id, children, k + 1,
             IF ~children[k].completed
             THEN Append(errors, <<req_id, children[k].req_id>>) ELSE errors)

RECURSIVE parent_to_children_from(_, _, _)
parent_to_children_from(requirements, i, parent_to_children) ==
    IF i > Len(requirements) THEN parent_to_children
    ELSE parent_to_children_from(requirements, i + 1,
             add_to_parents(parent_to_children, requirements[i],
                            requirements[i].parents, 1))

RECURSIVE _collect_errors(_, _, _, _)
_collect_errors(parent_to_children, requirements, i, errors) ==
    IF i > Len(requirements) THEN errors
    ELSE LET req == requirements[i]
         IN  _collect_errors(parent_to_children, requirements, i + 1,
                 IF req.completed
                 THEN _incomplete_children(req.req_id,
                          AdjGet(parent_to_children, req.req_id), 1, errors)
                 ELSE errors)

_validate_completed_children(requirements) ==
    LET errors == _collect_errors(
                      parent_to_children_from(requirements, 1, <<>>),
                      requirements, 1, <<>>)
    IN  IF errors # <<>>
        THEN [kind |-> "ValueError", what |-> "completion", errors |-> errors]
        ELSE Returned

\* validate_requirements of reqsnake.py
reqsnake_validate_requirements(prs) ==
    IF prs = <<>> THEN Returned
    ELSE LET requirements == [i \in DOMAIN prs |-> prs[i].requirement]
             dup == _validate_duplicate_ids(prs)
         IN  IF dup.kind # "returned" THEN dup
             ELSE LET cyc == _validate_no_cycles(requirements)
                  IN  IF cyc.kind # "returned" THEN cyc
                      ELSE _validate_completed_children(requirements)

\* The lockfile: dataclasses.asdict on the way out, Requirement.from_dict on
\* the way in.
asdict(req) ==
    [req_id |-> req.req_id, description |-> req.description,
     critical |-> req.critical, children |-> req.parents,
     completed |-> req.completed]

DictGet(data, key, default) == IF key \in DOMAIN data THEN data[key] ELSE default

from_dict(data) ==
    Requirement(data.req_id, data.description,
                DictGet(data, "critical", FALSE),
                DictGet(data, "children", <<>>),
                DictGet(data, "completed", FALSE))

\* Requirement.to_dict and Requirement.from_dict of models.py: the flattened
\* form has the key parents, and from_dict also reads the older key children.
to_dict(req) ==
    [req_id |-> req.req_id, description |-> req.description,
     critical |-> req.critical, parents |-> req.parents,
     completed |-> req.completed]

\* A variant that reads the older key only.
Requirement_from_dict_children(data) ==
    Requirement(data.req_id, data.description,
                DictGet(data, "critical", FALSE),
                DictGet(data, "children", <<>>),
                DictGet(data, "completed", FALSE))

Requirement_from_dict(data) ==
    Requirement(data.req_id, data.description,
                DictGet(data, "critical", FALSE),
                DictGet(data, "parents", DictGet(data, "children", <<>>)),
                DictGet(data, "completed", FALSE))

__version__ == "1.0.0"

NoLockfile == [exists |-> FALSE]

\* The temporary file replaces the lockfile in one step.
_save_lockfile(requirements) ==
    [exists |-> TRUE, version |-> __version__,
     requirements |-> [i \in DOMAIN requirements |-> asdict(requirements[i])]]

\* json.dump(lockfile_data, tf, indent=2) writes the text piece by piece: the
\* opening with the version, one piece for each requirement, the closing.
\* What the file holds when k of the pieces have reached it: the whole
\* lockfile when all have, and a text cut short before.
json_dump(requirements, k) ==
    IF k = Len(requirements) + 2 THEN _save_lockfile(requirements)
    ELSE [exists |-> TRUE, cut |-> k,
          version |-> IF k >= 1 THEN __version__ ELSE "",
          requirements |-> [i \in 1..(k - 1) |-> asdict(requirements[i])]]

\* A variant that issues the replace inside the with block, any time after
\* the temporary file was created.
inside_with_block(save) == save.at \in {"open", "closed"}

\* Path(tempname).replace(lockfile_path) comes after the with block: the
\* temporary file has been written whole and closed.
left_with_block(save) == save.at = "closed"

\* The processes that save the lockfile, and the longest list one saves.
MaxSavers == 3

MaxSaveLen == 1

_load_lockfile(lock) ==
    [i \in DOMAIN lock.requirements |-> from_dict(lock.requirements[i])]

\* What a command did: the checks that returned, in the order they ran, the
\* error that ended it if any, and the requirement list it wrote or rendered
\* (for a check, the diff it reported).
Ran(command, checks, result, wrote, written) ==
    [command |-> command, checks |-> checks, result |-> result,
     wrote |-> wrote, written |-> written]

Requirements(prs) == [i \in DOMAIN prs |-> prs[i].requirement]

\* reqsnake_init: parse, validate, write the lockfile.
reqsnake_init(file_data, lock) ==
    LET parsed_reqs == reqsnake_parse_requirements_from_files(file_data)
    IN  IF parsed_reqs.kind # "returned"
        THEN [lock |-> lock,
              run |-> Ran("reqsnake_init", <<>>, parsed_reqs, FALSE, <<>>)]
        ELSE LET valid == reqsnake_validate_requirements(parsed_reqs.value)
                 requirements == Requirements(parsed_reqs.value)
             IN  IF valid.kind # "returned"
                 THEN [lock |-> lock,
                       run |-> Ran("reqsnake_init", <<>>, valid, FALSE, <<>>)]
                 ELSE [lock |-> _save_lockfile(requirements),
                       run |-> Ran("reqsnake_init", <<"validate_requirements">>,
                                   Returned, TRUE, requirements)]

\* A variant that writes the lockfile whatever it holds.
UpdateLockfile_always(command, checks, requirements, lock) ==
    [lock |-> _save_lockfile(requirements),
     run |-> Ran(command, checks, Returned, TRUE, requirements)]

\* The tail shared by reqsnake_lock and cli_lock: the lockfile is written
\* unless it exists and holds the same list.
UpdateLockfile(command, checks, requirements, lock) ==
    LET lockfile_exists == lock.exists
        up_to_date == lockfile_exists /\ _load_lockfile(lock) = requirements
    IN  IF up_to_date
        THEN [lock |-> lock,
              run |-> Ran(command, checks, Returned, FALSE, <<>>)]
        ELSE [lock |-> _save_lockfile(requirements),
              run |-> Ran(command, checks, Returned, TRUE, requirements)]

\* A variant that writes the lockfile as soon as the parse has returned,
\* before the validation.
reqsnake_lock_eager(file_data, lock) ==
    LET parsed_reqs == reqsnake_parse_requirements_from_files(file_data)
    IN  IF parsed_reqs.kind # "returned"
        THEN [lock |-> lock,
              run |-> Ran("reqsnake_lock", <<>>, parsed_reqs, FALSE, <<>>)]
        ELSE LET valid == reqsnake_validate_requirements(parsed_reqs.value)
             IN  IF valid.kind # "returned"
                 THEN [lock |-> _save_lockfile(Requirements(parsed_reqs.value)),
                       run |-> Ran("reqsnake_lock", <<>>, valid, FALSE, <<>>)]
                 ELSE UpdateLockfile("reqsnake_lock",
                          <<"validate_requirements">>,
                          Requirements(parsed_reqs.value), lock)

reqsnake_lock(file_data, lock) ==
    LET parsed_reqs == reqsnake_parse_requirements_from_files(file_data)
    IN  IF parsed_reqs.kind # "returned"
        THEN [lock |-> lock,
              run |-> Ran("reqsnake_lock", <<>>, parsed_reqs, FALSE, <<>>)]
        ELSE LET valid == reqsnake_validate_requirements(parsed_reqs.value)
             IN  IF valid.kind # "returned"
                 THEN [lock |-> lock,
                       run |-> Ran("reqsnake_lock", <<>>, valid, FALSE, <<>>)]
                 ELSE UpdateLockfile("reqsnake_lock",
                          <<"validate_requirements">>,
                          Requirements(parsed_reqs.value), lock)

\* cli_lock parses file by file and runs two validators itself.
cli_lock(file_data, lock) ==
    LET parsed_reqs == reqsnake_parse_requirements_from_files(file_data)
    IN  IF parsed_reqs.kind # "returned"
        THEN [lock |-> lock,
              run |-> Ran("cli_lock", <<>>, ValueError("parse"), FALSE, <<>>)]
        ELSE LET requirements == Requirements(parsed_reqs.value)
                 completion == _validate_completed_children(requirements)
                 cycles == _validate_no_cycles(requirements)
             IN  IF completion.kind # "returned"
                 THEN [lock |-> lock,
                       run |-> Ran("cli_lock", <<>>, completion, FALSE, <<>>)]
                 ELSE IF cycles.kind # "returned"
                 THEN [lock |-> lock,
                       run |-> Ran("cli_lock", <<"_validate_completed_children">>,
                                   cycles, FALSE, <<>>)]
                 ELSE UpdateLockfile("cli_lock",
                          <<"_validate_completed_children", "_validate_no_cycles">>,
                          requirements, lock)

\* _diff_requirements of reqsnake.py, the same text as diff_requirements of
\* utils.py.
_diff_requirements(old_list, new_list) == diff_requirements(old_list, new_list)

\* reqsnake_check: the lockfile must exist; parse, validate, load the
\* lockfile and report the diff from its list to the documents' list.
reqsnake_check(file_data, lock) ==
    IF ~lock.exists
    THEN Ran("reqsnake_check", <<>>, [kind |-> "FileNotFoundError"], FALSE, <<>>)
    ELSE LET parsed_reqs == reqsnake_parse_requirements_from_files(file_data)
         IN  IF parsed_reqs.kind # "returned"
             THEN Ran("reqsnake_check", <<>>, parsed_reqs, FALSE, <<>>)
             ELSE LET valid == reqsnake_validate_requirements(parsed_reqs.value)
                      requirements == Requirements(parsed_reqs.value)
                      lock_reqs == _load_lockfile(lock)
                  IN  IF valid.kind # "returned"
                      THEN Ran("reqsnake_check", <<>>, valid, FALSE, <<>>)
                      ELSE Ran("reqsnake_check", <<"validate_requirements">>,
                               Returned, FALSE,
                               _diff_requirements(lock_reqs, requirements))

(***************************************************************************)
(* plugin.py: on_nav.                                                      *)
(***************************************************************************)
\* The navigation of a build before the hook runs.
FreshNav == <<"Home">>

GeneratedPage(req_id) == [generated |-> "page", req_id |-> req_id]
GeneratedIndex == [generated |-> "index"]

\* A variant that appends each page as soon as the parse has returned,
\* before the validation.
on_nav_eager(enabled, file_data, build_files, nav) ==
    IF ~enabled \/ file_data = <<>>
    THEN [files |-> build_files, nav |-> nav,
          run |-> Ran("on_nav", <<>>, Returned, FALSE, <<>>)]
    ELSE LET prs == parse_requirements_from_files(file_data)
         IN  IF prs.kind # "returned"
             THEN [files |-> build_files, nav |-> nav,
                   run |-> Ran("on_nav", <<>>, prs, FALSE, <<>>)]
             ELSE LET valid == validate_requirements(prs.value)
                      pages == [i \in DOMAIN prs.value |->
                                   GeneratedPage(prs.value[i].requirement.req_id)]
                  IN  IF valid.kind # "returned"
                      THEN [files |-> build_files \o pages, nav |-> nav,
                            run |-> Ran("on_nav", <<>>, valid, FALSE, <<>>)]
                      ELSE [files |-> (build_files \o pages) \o <<GeneratedIndex>>,
                            nav |-> Append(nav, "Requirements"),
                            run |-> Ran("on_nav", <<"validate_requirements">>,
                                        Returned, TRUE,
                                        Requirements(prs.value))]

on_nav(enabled, file_data, build_files, nav) ==
    IF ~enabled
    THEN [files |-> build_files, nav |-> nav,
          run |-> Ran("on_nav", <<>>, Returned, FALSE, <<>>)]
    ELSE IF file_data = <<>>
    THEN [files |-> build_files, nav |-> nav,
          run |-> Ran("on_nav", <<>>, Returned, FALSE, <<>>)]
    ELSE LET prs == parse_requirements_from_files(file_data)
         IN  IF prs.kind # "returned"
             THEN [files |-> build_files, nav |-> nav,
                   run |-> Ran("on_nav", <<>>, prs, FALSE, <<>>)]
             ELSE LET valid == validate_requirements(prs.value)
                      pages == [i \in DOMAIN prs.value |->
                                   GeneratedPage(prs.value[i].requirement.req_id)]
                  IN  IF valid.kind # "returned"
                      THEN [files |-> build_files, nav |-> nav,
                            run |-> Ran("on_nav", <<>>, valid, FALSE, <<>>)]
                      ELSE [files |-> (build_files \o pages) \o <<GeneratedIndex>>,
                            nav |-> Append(nav, "Requirements"),
                            run |-> Ran("on_nav", <<"validate_requirements">>,
                                        Returned, TRUE,
                                        Requirements(prs.value))]

(***************************************************************************)
(* generator.py.  A page is modelled line by line: a line is its kind and  *)
(* the data it is formatted from (ids, descriptions and file names in      *)
(* `of`, counts in `n`).  The content, the lines joined by newlines, is    *)
(* the sequence of the lines.                                              *)
(***************************************************************************)
Line(kind, of, n) == [line |-> kind, of |-> of, n |-> n]

\* The ids of the rendered records, in the order of their code points.
GenIds == <<"REQ-1", "REQ-2">>

\* RequirementLookup.__init__: _req_map is a dict comprehension, which keeps
\* its keys in the order they first appear and for each key the record
\* inserted last; _children_map lists, for each parent id named, the ids
\* of the records of _req_map that name it (a record names a parent once).
RequirementLookup(requirements) ==
    LET ids == {requirements[i].requirement.req_id : i \in DOMAIN requirements}
        last(k) == CHOOSE i \in DOMAIN requirements :
                       /\ requirements[i].requirement.req_id = k
                       /\ \A j \in DOMAIN requirements :
                              requirements[j].requirement.req_id = k => j <= i
        keys == dict_by_req_id(Requirements(requirements), 1, EmptyDict).keys
        at == [k \in ids |-> requirements[last(k)]]
        named == UNION {{at[k].requirement.parents[j] :
                             j \in DOMAIN at[k].requirement.parents} : k \in ids}
    IN  [_req_map |-> [keys |-> keys, at |-> at],
         _children_map |->
             [p \in named |->
                 SelectSeq(keys, LAMBDA k :
                     \E j \in DOMAIN at[k].requirement.parents :
                         at[k].requirement.parents[j] = p)]]

get_description(lookup, req_id) ==
    IF req_id \in DOMAIN lookup._req_map.at
    THEN lookup._req_map.at[req_id].requirement.description ELSE ""

\* sorted(self._children_map[req_id]): the ids are pairwise distinct
get_children(lookup, req_id) ==
    LET ids == IF req_id \in DOMAIN lookup._children_map
               THEN lookup._children_map[req_id] ELSE <<>>
    IN  SelectSeq(GenIds, LAMBDA id : \E j \in DOMAIN ids : ids[j] = id)

\* CompletionStats.calculate_completion: (completed_count, total_count)
calculate_completion(lookup, req_ids) ==
    <<Cardinality({j \in DOMAIN req_ids :
          /\ req_ids[j] \in DOMAIN lookup._req_map.at
          /\ lookup._req_map.at[req_ids[j]].requirement.completed}),
      Len(req_ids)>>

\* get_all_ancestors: what the loop over the parents of req_id appends from
\* its j-th parent on; visited holds the ids entered above req_id.
RECURSIVE get_all_ancestors(_, _, _, _)
get_all_ancestors(lookup, req_id, j, visited) ==
    LET parent_ids == IF req_id \in DOMAIN lookup._req_map.at
                      THEN lookup._req_map.at[req_id].requirement.parents
                      ELSE <<>>
    IN  IF j > Len(parent_ids) THEN <<>>
        ELSE (<<parent_ids[j]>>
              \o (IF parent_ids[j] \in visited \cup {req_id} THEN <<>>
                  ELSE get_all_ancestors(lookup, parent_ids[j], 1,
                                         visited \cup {req_id})))
             \o get_all_ancestors(lookup, req_id, j + 1, visited)

\* FlowchartGenerator._add_edges_recursive: the edge lines appended from the
\* j-th parent of child_id on.
RECURSIVE _add_edges_recursive(_, _, _, _)
_add_edges_recursive(lookup, child_id, j, visited) ==
    LET parent_ids == IF child_id \in DOMAIN lookup._req_map.at
                      THEN lookup._req_map.at[child_id].requirement.parents
                      ELSE <<>>
    IN  IF j > Len(parent_ids) THEN <<>>
        ELSE (<<Line("edge", <<child_id, parent_ids[j]>>, <<>>)>>
              \o (IF parent_ids[j] \in visited \cup {child_id} THEN <<>>
                  ELSE _add_edges_recursive(lookup, parent_ids[j], 1,
                                            visited \cup {child_id})))
             \o _add_edges_recursive(lookup, child_id, j + 1, visited)

\* FlowchartGenerator.generate: a node line for the requirement and for each
\* ancestor at its first occurrence, then the edges.
flowchart_generate(req, lookup) ==
    LET all_ancestors == get_all_ancestors(lookup, req.req_id, 1, {})
        firsts == {i \in DOMAIN all_ancestors :
                      \A j \in 1..(i - 1) : all_ancestors[j] # all_ancestors[i]}
        unique_ancestors ==
            [m \in 1..Cardinality(firsts) |->
                all_ancestors[CHOOSE i \in firsts :
                    Cardinality({j \in firsts : j < i}) = m - 1]]
        all_nodes == <<req.req_id>> \o unique_ancestors
    IN  <<Line("flowchart", <<>>, <<>>)>>
        \o [m \in DOMAIN all_nodes |->
               Line("node",
                    <<all_nodes[m],
                      IF all_nodes[m] # req.req_id
                      THEN get_description(lookup, all_nodes[m])
                      ELSE req.description>>, <<>>)]
        \o _add_edges_recursive(lookup, req.req_id, 1, {})

\* RequirementPageGenerator.generate on an instance whose self.lines holds
\* self_lines: every _add_ method extends self.lines, and the content
\* returned is the join of self.lines.
generate(self_lines, parsed_req, lookup) ==
    LET req == parsed_req.requirement
        children == get_children(lookup, req.req_id)
        items(ids) == [j \in DOMAIN ids |->
                          Line("item", <<ids[j], get_description(lookup, ids[j])>>,
                               <<>>)]
        _add_header == <<Line("header", <<req.req_id>>, <<>>)>>
        _add_status_indicators ==
            IF req.critical THEN <<Line("critical", <<>>, <<>>)>> ELSE <<>>
        _add_description ==
            <<Line("description", <<req.description>>, <<>>)>>
            \o (IF req.completed THEN <<Line("completed", <<>>, <<>>)>> ELSE <<>>)
        _add_children_mindmap ==
            IF children # <<>>
            THEN <<Line("mindmap", <<req.req_id>>, <<>>)>> \o items(children)
            ELSE <<>>
        _add_parents_section ==
            IF req.parents # <<>>
            THEN <<Line("parents", <<>>, calculate_completion(lookup, req.parents))>>
                 \o items(req.parents)
            ELSE <<>>
        _add_children_section ==
            IF children # <<>>
            THEN <<Line("children", <<>>, calculate_completion(lookup, children))>>
                 \o items(children)
            ELSE <<>>
        _add_source_link == <<Line("source", <<parsed_req.source_file>>, <<>>)>>
        _add_parent_flowchart ==
            IF req.parents # <<>> THEN flowchart_generate(req, lookup) ELSE <<>>
        now == self_lines \o _add_header \o _add_status_indicators
               \o _add_description \o _add_children_mindmap
               \o _add_parents_section \o _add_children_section
               \o _add_source_link \o _add_parent_flowchart
    IN  [lines |-> now, content |-> now]

\* generate_requirement_page_content: a lookup and a generator of its own
\* for every page.
generate_requirement_page_content(parsed_req, requirements) ==
    generate(<<>>, parsed_req, RequirementLookup(requirements)).content

(***************************************************************************)
(* The collections the validators are run on.  Ids are introduced in the   *)
(* order of IdOrder: a record either repeats an id already used or brings  *)
(* the next unused one (every collection over Ids is one of these up to a  *)
(* renaming of ids).  Parent ids range over all of Ids, so a parent may be *)
(* an id that no record of the collection carries.  Records of the first   *)
(* document precede those of the second, as parse_requirements_from_files  *)
(* produces them.                                                          *)
(***************************************************************************)
IdOrder == <<"REQ-1", "req-1", "REQ-2">>

\* A simple cycle passes through each id at most once.
MaxLinks == Cardinality(Ids)

SeqsUpTo(S, n) == UNION {[1..m -> S] : m \in 0..n}

RECURSIVE SumLen(_, _)
SumLen(c, i) ==
    IF i > Len(c) THEN 0 ELSE Len(c[i].requirement.parents) + SumLen(c, i + 1)

UsedIds(c) == {c[i].requirement.req_id : i \in DOMAIN c}

NextIds(c) ==
    UsedIds(c) \cup
    (IF Cardinality(UsedIds(c)) < Len(IdOrder)
     THEN {IdOrder[Cardinality(UsedIds(c)) + 1]} ELSE {})

SourcesAfter(c) ==
    IF c = <<>> THEN {Files[1], Files[2]}
    ELSE {Files[k] : k \in {k \in DOMAIN Files :
              \A j \in DOMAIN Files : Files[j] = c[Len(c)].source_file => j <= k}}

NotCalled == [kind |-> "not called"]

NotComputed == [kind |-> "not computed"]

NoRun == [command |-> "none"]

NotParsed == [kind |-> "not parsed"]

NotSaved == [kind |-> "not saved"]

NotRestored == [kind |-> "not restored"]

Init ==
    /\ parsed_requirements = <<>>
    /\ outcome = NotCalled
    /\ old = <<>>
    /\ new = <<>>
    /\ diff = NotComputed
    /\ docs = <<>>
    /\ lockfile = NoLockfile
    /\ files = <<>>
    /\ nav_items = FreshNav
    /\ run = NoRun
    /\ text = <<>>
    /\ typed = <<>>
    /\ file_list = <<>>
    /\ parsed = NotParsed
    /\ snapshot = NotSaved
    /\ restored = NotRestored
    /\ all_requirements = <<>>
    /\ generator = [kind |-> "none"]
    /\ contents = <<>>
    /\ saves = [p \in 1..MaxSavers |->
                    [at |-> "idle", requirements |-> <<>>, written |-> 0]]
    /\ linked = 0
    /\ observed = [at |-> "closed", inode |-> 0, got |-> NoLockfile]

\* The parser appends the next record it found to the collection.
ParseRecord ==
    /\ outcome = NotCalled
    /\ Len(parsed_requirements) < MaxReqs
    /\ \E id \in NextIds(parsed_requirements),
          parents \in SeqsUpTo(Ids, MaxLinks - SumLen(parsed_requirements, 1)),
          completed \in BOOLEAN,
          src \in SourcesAfter(parsed_requirements) :
            parsed_requirements' =
                Append(parsed_requirements,
                       ParsedRequirement(
                           Requirement(id, "text", FALSE, parents, completed), src))
    /\ UNCHANGED <<outcome, diff_vars, run_vars, text_vars, snapshot_vars, page_vars, save_vars>>

\* One validation pass over the collection.
ValidateRequirements ==
    /\ outcome = NotCalled
    /\ outcome' = validate_requirements(parsed_requirements)
    /\ UNCHANGED <<parsed_requirements, diff_vars, run_vars, text_vars, snapshot_vars, page_vars, save_vars>>

Spec ==
    Init /\ [][ParseRecord \/ ValidateRequirements]_vars

(***************************************************************************)
(* The diff of two lists of requirements.  The lists are arbitrary: ids    *)
(* may repeat within a list.  The records are a base record per id and the *)
(* records that differ from it in exactly one field.                       *)
(***************************************************************************)
DiffIds == {"REQ-1", "REQ-2"}

BaseRecord(id) == Requirement(id, "text", FALSE, <<"REQ-8", "REQ-9">>, FALSE)

DiffRecords ==
    UNION {{BaseRecord(id),
            [BaseRecord(id) EXCEPT !.description = "changed"],
            [BaseRecord(id) EXCEPT !.critical = TRUE],
            [BaseRecord(id) EXCEPT !.completed = TRUE],
            [BaseRecord(id) EXCEPT !.parents = <<"REQ-9", "REQ-8">>]} :
              id \in DiffIds}

\* A record of the stored list is read.
LoadOld ==
    /\ diff = NotComputed
    /\ new = <<>>
    /\ Len(old) < MaxDiffLen
    /\ \E r \in DiffRecords : old' = Append(old, r)
    /\ UNCHANGED <<new, diff, validation_vars, run_vars, text_vars, snapshot_vars, page_vars, save_vars>>

\* A record of the current list is parsed.
ParseNew ==
    /\ diff = NotComputed
    /\ Len(new) < MaxDiffLen
    /\ \E r \in DiffRecords : new' = Append(new, r)
    /\ UNCHANGED <<old, diff, validation_vars, run_vars, text_vars, snapshot_vars, page_vars, save_vars>>

DiffRequirements ==
    /\ diff = NotComputed
    /\ diff' = diff_requirements(old, new)
    /\ UNCHANGED <<old, new, validation_vars, run_vars, text_vars, snapshot_vars, page_vars, save_vars>>

DiffSpec ==
    Init /\ [][LoadOld \/ ParseNew \/ DiffRequirements]_vars

(***************************************************************************)
(* A valid list is flattened and read back, either record by record with   *)
(* to_dict and from_dict, or as a lockfile.                                *)
(***************************************************************************)
Formats == {"to_dict", "lockfile"}

InFile(requirements, source_file) ==
    [i \in DOMAIN requirements |->
        ParsedRequirement(requirements[i], source_file)]

Serialize ==
    /\ snapshot = NotSaved
    /\ validate_requirements(InFile(new, Files[1])) = Returned
    /\ \E format \in Formats :
           snapshot' =
               IF format = "to_dict"
               THEN [kind |-> "to_dict",
                     items |-> [i \in DOMAIN new |-> to_dict(new[i])]]
               ELSE [kind |-> "lockfile", file |-> _save_lockfile(new)]
    /\ UNCHANGED <<restored, text_vars, validation_vars, diff_vars, run_vars, page_vars, save_vars>>

Deserialize ==
    /\ snapshot # NotSaved
    /\ restored = NotRestored
    /\ restored' =
           [kind |-> "restored",
            value |-> IF snapshot.kind = "to_dict"
                      THEN [i \in DOMAIN snapshot.items |->
                               Requirement_from_dict(snapshot.items[i])]
                      ELSE _load_lockfile(snapshot.file)]
    /\ UNCHANGED <<snapshot, text_vars, validation_vars, diff_vars, run_vars, page_vars, save_vars>>

SnapshotNext ==
    \/ (snapshot = NotSaved /\ ParseNew)
    \/ Serialize
    \/ Deserialize

SnapshotSpec == Init /\ [][SnapshotNext]_vars

(***************************************************************************)
(* A markdown text is typed piece by piece and then parsed.  typed records *)
(* what was typed, piece by piece; text is the text itself.                *)
(***************************************************************************)
ParseMarkdown ==
    /\ parsed = NotParsed
    /\ parsed' = parse_requirements_from_markdown(text)
    /\ UNCHANGED <<text, typed, file_list, snapshot_vars, validation_vars,
                   diff_vars, run_vars, page_vars, save_vars>>

Type(piece, name) ==
    /\ parsed = NotParsed
    /\ text' = text \o piece
    /\ typed' = Append(typed, name)
    /\ UNCHANGED <<file_list, parsed, snapshot_vars, validation_vars,
                   diff_vars, run_vars, page_vars, save_vars>>

(***************************************************************************)
(* The block "> s" / "> description", s typed character by character.      *)
(***************************************************************************)
MaxIdLen == 4

IdAlphabet ==
    {"R", "q", "1", "-", "_", ".", " ", "\t", NonAsciiUpper, NonAsciiDigit}

QuoteMarker == <<">", " ">>

DescriptionLine == <<"\n", ">", " ", "d", "e", "s", "c", "r", "i", "p", "t", "i", "o", "n">>

DescriptionTyped == \E i \in DOMAIN text : text[i] = "\n"

TypeQuoteMarker ==
    /\ text = <<>>
    /\ parsed = NotParsed
    /\ text' = QuoteMarker
    /\ UNCHANGED <<typed, file_list, parsed, snapshot_vars, validation_vars,
                   diff_vars, run_vars, page_vars, save_vars>>

TypeIdChar ==
    /\ text # <<>>
    /\ ~DescriptionTyped
    /\ Len(typed) < MaxIdLen
    /\ \E c \in IdAlphabet : Type(<<c>>, c)

TypeDescription ==
    /\ text # <<>>
    /\ ~DescriptionTyped
    /\ parsed = NotParsed
    /\ text' = text \o DescriptionLine
    /\ UNCHANGED <<typed, file_list, parsed, snapshot_vars, validation_vars,
                   diff_vars, run_vars, page_vars, save_vars>>

IdNext ==
    \/ TypeQuoteMarker
    \/ TypeIdChar
    \/ TypeDescription
    \/ (DescriptionTyped /\ ParseMarkdown)

IdSpec == Init /\ [][IdNext]_vars

(***************************************************************************)
(* One block: an id line and a description line, then attribute lines.     *)
(* Each piece typed is recorded with what it says: is, the kind of line;   *)
(* value, the description of a header or the parent id of a child-of line  *)
(* as written; same and trimmed, the parent id with letter case and all    *)
(* whitespace, or letter case and the whitespace around it, set aside.     *)
(***************************************************************************)
MaxAttrLines == 3

HeaderId == <<"R", "E", "Q", "-", "1">>

Headers ==
    {
     [is |-> "header", same |-> "", trimmed |-> "",
      value |-> <<"T", "e", "s", "t", ".">>,
      line |-> <<">", " ", "R", "E", "Q", "-", "1", "\n", ">", " ", "T",
            "e", "s", "t", ".", "\n">>],
     [is |-> "header", same |-> "", trimmed |-> "",
      value |-> <<"S", "o", "m", "e", " ", "t", "e", "x", "t", ".">>,
      line |-> <<">", " ", "R", "E", "Q", "-", "1", "\n", ">", "\n", ">",
            " ", "S", "o", "m", "e", " ", "t", "e", "x", "t", ".", "\n">>]
    }

AttributeLines ==
    {
     [is |-> "critical", same |-> "", trimmed |-> "",
      value |-> <<>>,
      line |-> <<"c", "r", "i", "t", "i", "c", "a", "l">>],
     [is |-> "critical", same |-> "", trimmed |-> "",
      value |-> <<>>,
      line |-> <<" ", " ", "C", "R", "I", "T", "I", "C", "A", "L", " ">>],
     [is |-> "completed", same |-> "", trimmed |-> "",
      value |-> <<>>,
      line |-> <<"C", "o", "m", "p", "l", "e", "t", "e", "d">>],
     [is |-> "child-of", same |-> "A-1", trimmed |-> "A-1",
      value |-> <<"A", "-", "1">>,
      line |-> <<"c", "h", "i", "l", "d", "-", "o", "f", ":", " ", "A",
            "-", "1">>],
     [is |-> "child-of", same |-> "A-1", trimmed |-> "A-1",
      value |-> <<"a", "-", "1">>,
      line |-> <<"C", "H", "I", "L", "D", "-", "O", "F", " ", " ", " ", "a",
            "-", "1", " ", " ">>],
     [is |-> "child-of", same |-> "B-2", trimmed |-> "B-2",
      value |-> <<"B", "-", "2">>,
      line |-> <<"C", "h", "i", "l", "d", "-", "O", "f", " ", "B", "-",
            "2">>],
     [is |-> "child-of", same |-> "A1", trimmed |-> "A 1",
      value |-> <<"A", " ", "1">>,
      line |-> <<"c", "h", "i", "l", "d", "-", "o", "f", ":", " ", "A",
            " ", "1">>],
     [is |-> "child-of", same |-> "A1", trimmed |-> "A1",
      value |-> <<"a", "1">>,
      line |-> <<"c", "h", "i", "l", "d", "-", "o", "f", ":", "a", "1">>],
     [is |-> "child-of", same |-> "", trimmed |-> "",
      value |-> <<>>,
      line |-> <<"c", "h", "i", "l", "d", "-", "o", "f", ":">>],
     [is |-> "blank", same |-> "", trimmed |-> "",
      value |-> <<>>,
      line |-> <<>>],
     [is |-> "unknown", same |-> "", trimmed |-> "",
      value |-> <<>>,
      line |-> <<"b", "o", "g", "u", "s">>],
     [is |-> "unknown", same |-> "", trimmed |-> "",
      value |-> <<>>,
      line |-> <<"c", "h", "i", "l", "d", " ", "o", "f", " ", "A", "-",
            "1">>]
    }

TypeHeader ==
    /\ text = <<>>
    /\ \E header \in Headers : Type(header.line, header)

TypeAttribute ==
    /\ text # <<>>
    /\ Len(typed) < 1 + MaxAttrLines
    /\ \E attribute \in AttributeLines :
           Type((QuoteMarker \o attribute.line) \o <<"\n">>, attribute)

AttrNext ==
    \/ TypeHeader
    \/ TypeAttribute
    \/ (text # <<>> /\ ParseMarkdown)

AttrSpec == Init /\ [][AttrNext]_vars

(***************************************************************************)
(* A document: quoted blocks, each followed by a blank line, and comment   *)
(* markers on lines of their own.  Each piece is recorded with what it is  *)
(* (is) and with the result its block has when it is parsed (value): the   *)
(* requirement, None for a block that is not requirement-shaped, or the    *)
(* error that parse_requirements_from_markdown raises for it.              *)
(***************************************************************************)
MaxPieces == 4

DocPieces ==
    {
     [is |-> "requirement",
      value |-> ARequirement(Requirement(<<"R", "-", "1">>, <<"a">>, FALSE,
            <<>>, FALSE)),
      line |-> <<">", " ", "R", "-", "1", "\n", ">", " ", "a", "\n", "\n">>],
     [is |-> "requirement",
      value |-> ARequirement(Requirement(<<"R", "-", "2">>, <<"b">>, TRUE,
            <<>>, FALSE)),
      line |-> <<">", " ", "R", "-", "2", "\n", ">", " ", "b", "\n", ">",
            " ", "c", "r", "i", "t", "i", "c", "a", "l", "\n", "\n">>],
     [is |-> "not-shaped",
      value |-> NoRequirement,
      line |-> <<">", " ", "R", "-", "3", "\n", "\n">>],
     [is |-> "not-shaped",
      value |-> NoRequirement,
      line |-> <<">", " ", "S", "o", " ", "i", "t", " ", "g", "o", "e",
            "s", "\n", ">", " ", "b", "o", "g", "u", "s", "\n", "\n">>],
     [is |-> "tabbed",
      value |-> FailedToParseBlock(InvalidRequirementIdError(<<"R", "\t",
            "4">>, "format")),
      line |-> <<">", " ", "R", "\t", "4", "\n", ">", " ", "d", "\n", "\n">>],
     [is |-> "invalid-id",
      value |-> FailedToParseBlock(InvalidRequirementIdError(<<"R", "5">>,
            "format")),
      line |-> <<">", " ", "R", "5", "\n", ">", " ", "e", "\n", "\n">>],
     [is |-> "bad-attribute",
      value |-> UnknownAttribute(<<"b", "o", "g", "u", "s">>, <<"R", "-",
            "6">>),
      line |-> <<">", " ", "R", "-", "6", "\n", ">", " ", "f", "\n", ">",
            " ", "b", "o", "g", "u", "s", "\n", "\n">>],
     [is |-> "open",
      value |-> NoRequirement,
      line |-> <<"<", "!", "-", "-", "\n">>],
     [is |-> "close",
      value |-> NoRequirement,
      line |-> <<"-", "-", ">", "\n">>]
    }

TypePiece ==
    /\ Len(typed) < MaxPieces
    /\ \E piece \in DocPieces : Type(piece.line, piece)

DocSpec ==
    Init /\ [][TypePiece \/ ParseMarkdown]_vars

(***************************************************************************)
(* Files with their texts: a file is added at the end of the list, and a   *)
(* block is typed at the end of the last file.  typed records each block   *)
(* with the file it went to.                                               *)
(***************************************************************************)
MaxFileBlocks == 3

DuplicateParentBlock ==
     [is |-> "duplicate-parent",
      value |-> DuplicateParent(<<"a", "-", "1">>, <<"R", "-", "7">>),
      line |-> <<">", " ", "R", "-", "7", "\n", ">", " ", "g", "\n", ">",
            " ", "c", "h", "i", "l", "d", "-", "o", "f", ":", " ", "A",
            "-", "1", "\n", ">", " ", "c", "h", "i", "l", "d", "-", "o",
            "f", ":", " ", "a", "-", "1", "\n", "\n">>]

FileBlocks ==
    {piece \in DocPieces :
        piece.is \in {"requirement", "invalid-id", "bad-attribute"}}
    \cup {DuplicateParentBlock}

AddFile ==
    /\ parsed = NotParsed
    /\ Len(file_list) < Len(Files)
    /\ file_list' = Append(file_list, [path |-> Files[Len(file_list) + 1],
                                       content |-> <<>>])
    /\ UNCHANGED <<text, typed, parsed, snapshot_vars, validation_vars,
                   diff_vars, run_vars, page_vars, save_vars>>

TypeInFile ==
    /\ parsed = NotParsed
    /\ file_list # <<>>
    /\ Len(typed) < MaxFileBlocks
    /\ \E block \in FileBlocks :
           LET last == file_list[Len(file_list)]
           IN  /\ file_list' =
                      [file_list EXCEPT ![Len(file_list)].content =
                          last.content \o block.line]
               /\ typed' = Append(typed, [file |-> last.path, piece |-> block])
    /\ UNCHANGED <<text, parsed, snapshot_vars, validation_vars, diff_vars,
                   run_vars, page_vars, save_vars>>

ParseFiles ==
    /\ parsed = NotParsed
    /\ parsed' = parse_requirements_from_file_texts(file_list)
    /\ UNCHANGED <<text, typed, file_list, snapshot_vars, validation_vars,
                   diff_vars, run_vars, page_vars, save_vars>>

FilesSpec ==
    Init /\ [][AddFile \/ TypeInFile \/ ParseFiles]_vars

(***************************************************************************)
(* The commands run against a documentation directory that is edited       *)
(* between them.  Page k of docs is the file Files[k]; pages are created   *)
(* and deleted at the end, blocks are written at the end of the last page. *)
(***************************************************************************)
DocIds == {"REQ-1", "REQ-2"}

DocBlocks ==
    {Requirement(id, "text", FALSE, parents, completed) :
        id \in DocIds, parents \in {<<>>, <<"REQ-1">>}, completed \in BOOLEAN}
    \cup {BadBlock}

RECURSIVE BlockCount(_, _)
BlockCount(pages, i) ==
    IF i > Len(pages) THEN 0
    ELSE Len(pages[i].content) + BlockCount(pages, i + 1)

\* An edit starts a new build and makes the last command's report stale.
Edited(pages) ==
    /\ docs' = pages
    /\ files' = <<>>
    /\ nav_items' = FreshNav
    /\ run' = NoRun
    /\ UNCHANGED <<lockfile, validation_vars, diff_vars, text_vars, snapshot_vars, page_vars, save_vars>>

CreatePage ==
    /\ Len(docs) < Len(Files)
    /\ Edited(Append(docs, [path |-> Files[Len(docs) + 1], content |-> <<>>]))

WriteBlock ==
    /\ docs # <<>>
    /\ BlockCount(docs, 1) < MaxDocBlocks
    /\ \E block \in DocBlocks :
           Edited([docs EXCEPT ![Len(docs)].content = Append(@, block)])

DeletePage ==
    /\ docs # <<>>
    /\ Edited(SubSeq(docs, 1, Len(docs) - 1))

ApiInit ==
    LET done == reqsnake_init(docs, lockfile)
    IN  /\ lockfile' = done.lock
        /\ run' = done.run
        /\ UNCHANGED <<docs, files, nav_items, validation_vars, diff_vars, text_vars, snapshot_vars, page_vars, save_vars>>

ApiLock ==
    LET done == reqsnake_lock(docs, lockfile)
    IN  /\ lockfile' = done.lock
        /\ run' = done.run
        /\ UNCHANGED <<docs, files, nav_items, validation_vars, diff_vars, text_vars, snapshot_vars, page_vars, save_vars>>

CliLock ==
    LET done == cli_lock(docs, lockfile)
    IN  /\ lockfile' = done.lock
        /\ run' = done.run
        /\ UNCHANGED <<docs, files, nav_items, validation_vars, diff_vars, text_vars, snapshot_vars, page_vars, save_vars>>

\* A build calls the hook with its own file collection and navigation; the
\* pages matching .requirementsignore are left out of file_data.
OnNav ==
    \E enabled \in BOOLEAN, ignored \in SUBSET {Files[k] : k \in DOMAIN Files} :
        LET file_data == SelectSeq(docs, LAMBDA page : page.path \notin ignored)
            done == on_nav(enabled, file_data, <<>>, FreshNav)
        IN  /\ files' = done.files
            /\ nav_items' = done.nav
            /\ run' = done.run
            /\ UNCHANGED <<docs, lockfile, validation_vars, diff_vars, text_vars, snapshot_vars, page_vars, save_vars>>

RunSpec ==
    Init /\ [][\/ CreatePage \/ WriteBlock \/ DeletePage \/ ApiInit
               \/ ApiLock \/ CliLock \/ OnNav]_vars

\* The documentation directory with the lockfile commands alone.
LockSpec ==
    Init /\ [][\/ CreatePage \/ WriteBlock \/ DeletePage
               \/ ApiInit \/ ApiLock \/ CliLock]_vars

\* A check reads the documents and the lockfile and reports.
ApiCheck ==
    /\ run' = reqsnake_check(docs, lockfile)
    /\ UNCHANGED <<docs, lockfile, files, nav_items, validation_vars, diff_vars, text_vars, snapshot_vars, page_vars, save_vars>>

\* The documentation directory with init, both locks and check.
CheckSpec ==
    Init /\ [][\/ CreatePage \/ WriteBlock \/ DeletePage
               \/ ApiInit \/ ApiLock \/ CliLock \/ ApiCheck]_vars

(***************************************************************************)
(* Rendering.  A list of parsed records, in which an id may repeat, is     *)
(* handed to a RequirementLookup; one RequirementPageGenerator is built    *)
(* over the lookup and generate is called on it for records of the list.   *)
(***************************************************************************)
MaxPageReqs == 2

MaxCalls == 2

GenRecords ==
    {ParsedRequirement(Requirement(id, description, FALSE, parents, completed),
                       Files[1]) :
        id \in {GenIds[k] : k \in DOMAIN GenIds},
        description \in {"one", "two"},
        parents \in {<<>>, <<GenIds[1]>>},
        completed \in BOOLEAN}

AddParsed ==
    /\ generator.kind = "none"
    /\ Len(all_requirements) < MaxPageReqs
    /\ \E pr \in GenRecords : all_requirements' = Append(all_requirements, pr)
    /\ UNCHANGED <<generator, contents, validation_vars, diff_vars, run_vars, text_vars, snapshot_vars, save_vars>>

\* RequirementPageGenerator(RequirementLookup(all_requirements))
NewGenerator ==
    /\ generator.kind = "none"
    /\ all_requirements # <<>>
    /\ generator' = [kind |-> "RequirementPageGenerator",
                     lookup |-> RequirementLookup(all_requirements),
                     lines |-> <<>>]
    /\ UNCHANGED <<all_requirements, contents, validation_vars, diff_vars, run_vars, text_vars, snapshot_vars, save_vars>>

\* generator.generate(all_requirements[i])
Generate ==
    /\ generator.kind = "RequirementPageGenerator"
    /\ Len(contents) < MaxCalls
    /\ \E i \in DOMAIN all_requirements :
           LET done == generate(generator.lines, all_requirements[i],
                                generator.lookup)
           IN  /\ generator' = [generator EXCEPT !.lines = done.lines]
               /\ contents' = Append(contents,
                                     [of |-> i, content |-> done.content])
    /\ UNCHANGED <<all_requirements, validation_vars, diff_vars, run_vars, text_vars, snapshot_vars, save_vars>>

GenSpec == Init /\ [][AddParsed \/ NewGenerator \/ Generate]_vars

(***************************************************************************)
(* Saving the lockfile, step by step.  Each process runs _save_lockfile    *)
(* once: it creates a temporary file of its own beside the lockfile        *)
(* (NamedTemporaryFile opens with O_EXCL, so no two processes get the same *)
(* file; the file is named by the number of its process), writes the JSON  *)
(* text into it piece by piece, closes it, and renames it onto             *)
(* reqsnake.lock.  A process may be killed between any two steps.  A       *)
(* reader opens reqsnake.lock and then reads the file it opened.  A write  *)
(* to a file shows under every name the file has.                          *)
(***************************************************************************)
Savers == 1..MaxSavers

SavedLists ==
    SeqsUpTo({Requirement(GenIds[1], "one", FALSE, <<>>, FALSE),
              Requirement(GenIds[2], "two", FALSE, <<GenIds[1]>>, TRUE)},
             MaxSaveLen)

\* What the temporary file of process p holds.
FileOf(p) == json_dump(saves[p].requirements, saves[p].written)

\* tempfile.NamedTemporaryFile("w", delete=False, dir=lockfile_path.parent)
NamedTemporaryFile(p) ==
    /\ saves[p].at = "idle"
    /\ \E requirements \in SavedLists :
           saves' = [saves EXCEPT ![p] = [at |-> "open",
                                          requirements |-> requirements,
                                          written |-> 0]]
    /\ UNCHANGED <<lockfile, linked, observed, docs, files, nav_items, run, validation_vars, diff_vars, text_vars, snapshot_vars, page_vars>>

\* One more piece of json.dump reaches the temporary file.
JsonDump(p) ==
    /\ saves[p].at = "open"
    /\ saves[p].written < Len(saves[p].requirements) + 2
    /\ saves' = [saves EXCEPT ![p].written = @ + 1]
    /\ lockfile' = IF linked = p
                   THEN json_dump(saves[p].requirements, saves[p].written + 1)
                   ELSE lockfile
    /\ UNCHANGED <<linked, observed, docs, files, nav_items, run, validation_vars, diff_vars, text_vars, snapshot_vars, page_vars>>

\* The with block ends: everything was written, the file is closed.
CloseTemp(p) ==
    /\ saves[p].at = "open"
    /\ saves[p].written = Len(saves[p].requirements) + 2
    /\ saves' = [saves EXCEPT ![p].at = "closed"]
    /\ UNCHANGED <<lockfile, linked, observed, docs, files, nav_items, run, validation_vars, diff_vars, text_vars, snapshot_vars, page_vars>>

\* Path(tempname).replace(lockfile_path): rename, one step of the file system.
PathReplace(p) ==
    /\ left_with_block(saves[p])
    /\ saves' = [saves EXCEPT ![p].at = "done"]
    /\ linked' = p
    /\ lockfile' = FileOf(p)
    /\ UNCHANGED <<observed, docs, files, nav_items, run, validation_vars, diff_vars, text_vars, snapshot_vars, page_vars>>

\* The process is killed; its temporary file stays as it is (delete=False).
Interrupt(p) ==
    /\ saves[p].at \in {"open", "closed"}
    /\ saves' = [saves EXCEPT ![p].at = "killed"]
    /\ UNCHANGED <<lockfile, linked, observed, docs, files, nav_items, run, validation_vars, diff_vars, text_vars, snapshot_vars, page_vars>>

\* _load_lockfile: lockfile_path.open("r") ...
OpenLockfile ==
    /\ observed.at # "open"
    /\ observed' = IF linked = 0
                   THEN [at |-> "FileNotFoundError", inode |-> 0,
                         got |-> NoLockfile]
                   ELSE [at |-> "open", inode |-> linked, got |-> NoLockfile]
    /\ UNCHANGED <<lockfile, saves, linked, docs, files, nav_items, run, validation_vars, diff_vars, text_vars, snapshot_vars, page_vars>>

\* ... and json.load(f), which reads the opened file to its end.
ReadLockfile ==
    /\ observed.at = "open"
    /\ observed' = [observed EXCEPT !.at = "read",
                                    !.got = FileOf(observed.inode)]
    /\ UNCHANGED <<lockfile, saves, linked, docs, files, nav_items, run, validation_vars, diff_vars, text_vars, snapshot_vars, page_vars>>

SaveSpec ==
    Init /\ [][\/ \E p \in Savers : NamedTemporaryFile(p)
               \/ \E p \in Savers : JsonDump(p)
               \/ \E p \in Savers : CloseTemp(p)
               \/ \E p \in Savers : PathReplace(p)
               \/ \E p \in Savers : Interrupt(p)
               \/ OpenLockfile
               \/ ReadLockfile]_vars

(***************************************************************************)
(* What the claims speak of, stated on the collection itself and           *)
(* independently of the validators' code.                                  *)
(***************************************************************************)
Range(f) == {f[x] : x \in DOMAIN f}

Called == outcome # NotCalled

\* The requirements of the validated collection, in collection order.
Reqs == [i \in DOMAIN parsed_requirements |-> parsed_requirements[i].requirement]

DistinctIds(rs) ==
    \A i, j \in DOMAIN rs : i # j => rs[i].req_id # rs[j].req_id

\* <<c, p>>: a record with id c declares p as a parent.
ParentLinks(rs) ==
    UNION {{<<rs[i].req_id, rs[i].parents[k]>> : k \in DOMAIN rs[i].parents} :
              i \in DOMAIN rs}

\* The links of R followed by one link of E.
Compose(R, E) ==
    {<<q[1][1], q[2][2]>> : q \in {q \in R \X E : q[1][2] = q[2][1]}}

RECURSIVE PathsWithin(_, _, _)
PathsWithin(E, R, n) ==
    IF n = 0 THEN R ELSE PathsWithin(E, R \cup Compose(R, E), n - 1)

\* <<a, b>>: b is reached from a by one or more parent links.
Ancestry(rs) == PathsWithin(ParentLinks(rs), ParentLinks(rs), Cardinality(Ids))

HasCycle(rs) == \E x \in Ids : <<x, x>> \in Ancestry(rs)

\* The pairs (P.id, C.id): P is completed, C declares P as a parent and C is
\* not completed.
CompletionViolations(rs) ==
    {<<rs[q[1]].req_id, rs[q[2]].req_id>> :
        q \in {q \in (DOMAIN rs) \X (DOMAIN rs) :
                  /\ rs[q[1]].completed
                  /\ ~rs[q[2]].completed
                  /\ rs[q[1]].req_id \in Range(rs[q[2]].parents)}}

\* The parent ids that no record of the collection carries.
MissingParents(rs) ==
    {l[2] : l \in ParentLinks(rs)} \ {rs[i].req_id : i \in DOMAIN rs}

(***************************************************************************)
(* C1.  A collection with pairwise distinct ids whose parent graph has a   *)
(* cycle of any length, in any component and at any position of the        *)
(* collection, makes validate_requirements raise CircularDependencyError.  *)
(***************************************************************************)
C1_CycleIsRaised ==
    (Called /\ DistinctIds(Reqs) /\ HasCycle(Reqs))
        => outcome.kind = "CircularDependencyError"

\* The first record stands alone and the cycle lies among the records after it.
C1_Witness ==
    /\ outcome.kind = "CircularDependencyError"
    /\ DistinctIds(Reqs)
    /\ Len(Reqs) = 3
    /\ Reqs[1].parents = <<>>
    /\ \A l \in ParentLinks(Reqs) : l[2] # Reqs[1].req_id
    /\ <<Reqs[3].req_id, Reqs[3].req_id>> \in Ancestry(Reqs)

(***************************************************************************)
(* C2.  For a collection with distinct ids and no cycle, if some completed *)
(* requirement has a child that is not completed, validation raises        *)
(* CompletionValidationError and the error lists every such (parent,       *)
(* child) pair.                                                            *)
(***************************************************************************)
C2_AllViolationsListed ==
    (/\ Called
     /\ DistinctIds(Reqs)
     /\ ~HasCycle(Reqs)
     /\ CompletionViolations(Reqs) # {})
        => /\ outcome.kind = "CompletionValidationError"
           /\ Range(outcome.errors) = CompletionViolations(Reqs)

\* Two different pairs are reported by one error.
C2_Witness ==
    /\ outcome.kind = "CompletionValidationError"
    /\ DistinctIds(Reqs)
    /\ Cardinality(CompletionViolations(Reqs)) >= 2
    /\ Range(outcome.errors) = CompletionViolations(Reqs)

(***************************************************************************)
(* C3.  DuplicateRequirementError is raised exactly when two records have  *)
(* the same id (compared as written); it is raised at the first record     *)
(* whose id was seen before and carries that id, the source file of the    *)
(* earlier record and the source file of the repeating record.             *)
(***************************************************************************)
\* The positions whose id occurs at an earlier position.
Repeating(prs) ==
    {j \in DOMAIN prs :
        \E i \in 1..(j - 1) : prs[i].requirement.req_id = prs[j].requirement.req_id}

FirstRepeating(prs) ==
    CHOOSE j \in Repeating(prs) : \A k \in Repeating(prs) : j <= k

EarlierOf(prs, j) ==
    CHOOSE i \in 1..(j - 1) : prs[i].requirement.req_id = prs[j].requirement.req_id

C3_DuplicateIffRepeatedId ==
    Called =>
        /\ (outcome.kind = "DuplicateRequirementError") <=> ~DistinctIds(Reqs)
        /\ ~DistinctIds(Reqs) =>
              LET j == FirstRepeating(parsed_requirements)
                  i == EarlierOf(parsed_requirements, j)
              IN  outcome = DuplicateRequirementError(
                                parsed_requirements[j].requirement.req_id,
                                parsed_requirements[j].source_file,
                                parsed_requirements[i].source_file)

\* "REQ-1" and "req-1" are both present and are not a duplicate; the repeated
\* id comes from two different documents.
C3_Witness ==
    /\ outcome.kind = "DuplicateRequirementError"
    /\ {"REQ-1", "req-1"} \subseteq
           {Reqs[i].req_id : i \in 1..(FirstRepeating(parsed_requirements) - 1)}
    /\ outcome.source_file # outcome.first_file

(***************************************************************************)
(* C4.  When validate_requirements returns, the ids are pairwise distinct, *)
(* the parent graph has no cycle and every requirement that declares a     *)
(* completed requirement as parent is itself completed.                    *)
(***************************************************************************)
C4_ReturnedMeansValid ==
    outcome.kind = "returned" =>
        /\ DistinctIds(Reqs)
        /\ ~HasCycle(Reqs)
        /\ \A p, c \in DOMAIN Reqs :
               (Reqs[p].completed /\ Reqs[p].req_id \in Range(Reqs[c].parents))
                   => Reqs[c].completed

\* A returned pass over a collection with a completed parent and a record
\* with two parents.
C4_Witness ==
    /\ outcome.kind = "returned"
    /\ \E p, c \in DOMAIN Reqs :
           Reqs[p].completed /\ Reqs[p].req_id \in Range(Reqs[c].parents)
    /\ \E c \in DOMAIN Reqs : Len(Reqs[c].parents) >= 2

(***************************************************************************)
(* C5.  validate_requirements returns for every collection with distinct   *)
(* ids whose declared parents all exist, whose parent graph is acyclic and *)
(* in which every child of a completed requirement is completed.           *)
(***************************************************************************)
C5_ValidIsAccepted ==
    (/\ Called
     /\ DistinctIds(Reqs)
     /\ MissingParents(Reqs) = {}
     /\ ~HasCycle(Reqs)
     /\ CompletionViolations(Reqs) = {})
        => outcome.kind = "returned"

\* Two paths lead to the same ancestor, and a completed parent has a
\* completed child.
C5_Witness ==
    /\ outcome.kind = "returned"
    /\ Len(Reqs) = 3
    /\ MissingParents(Reqs) = {}
    /\ \E a, b, c \in Ids :
           /\ a # b /\ b # c /\ a # c
           /\ {<<a, b>>, <<b, c>>, <<a, c>>} \subseteq ParentLinks(Reqs)
    /\ \E p, c \in DOMAIN Reqs :
           Reqs[p].completed /\ Reqs[p].req_id \in Range(Reqs[c].parents)

(***************************************************************************)
(* C6.  The checks run in the order duplicate ids, cycles, completion, and *)
(* the error raised is that of the first check that fails; later checks do *)
(* not contribute.                                                         *)
(***************************************************************************)
FirstFailingCheck(rs) ==
    IF ~DistinctIds(rs) THEN "DuplicateRequirementError"
    ELSE IF HasCycle(rs) THEN "CircularDependencyError"
    ELSE IF CompletionViolations(rs) # {} THEN "CompletionValidationError"
    ELSE "returned"

C6_EarliestFailureWins == Called => outcome.kind = FirstFailingCheck(Reqs)

\* A cycle and a completion violation at once; the cycle is reported.
C6_Witness ==
    /\ DistinctIds(Reqs)
    /\ HasCycle(Reqs)
    /\ CompletionViolations(Reqs) # {}
    /\ outcome.kind = "CircularDependencyError"

(***************************************************************************)
(* C7.  A declared parent id that no record of the collection carries      *)
(* makes validate_requirements raise an error naming that id.              *)
(***************************************************************************)
C7_MissingParentIsRaised ==
    (Called /\ MissingParents(Reqs) # {})
        => outcome.kind = "MissingParentError"

(***************************************************************************)
(* C8.  Whenever a command writes the lockfile or appends generated pages, *)
(* the requirement list it writes or renders has pairwise distinct ids, no *)
(* cycle and no completed parent with an incomplete child: all three       *)
(* checks passed on exactly that list in the same run.                     *)
(***************************************************************************)
Wrote == run.command # "none" /\ run.wrote

C8_WrittenOnlyAfterAllChecks ==
    Wrote => /\ DistinctIds(run.written)
             /\ ~HasCycle(run.written)
             /\ CompletionViolations(run.written) = {}

(***************************************************************************)
(* C11.  Flattening a valid list and reading it back gives the same list:  *)
(* the same number of records in the same order, each with the same id,    *)
(* description, critical, completed and parents in the same order.         *)
(***************************************************************************)
Restored == restored.kind = "restored"

C11_RoundTripIsIdentity ==
    Restored =>
        /\ Len(restored.value) = Len(new)
        /\ \A i \in DOMAIN new :
               /\ restored.value[i].req_id = new[i].req_id
               /\ restored.value[i].description = new[i].description
               /\ restored.value[i].critical = new[i].critical
               /\ restored.value[i].completed = new[i].completed
               /\ restored.value[i].parents = new[i].parents

C11_Witness ==
    /\ Restored
    /\ snapshot.kind = "to_dict"
    /\ Len(new) = 2
    /\ new[1].parents = <<"REQ-9", "REQ-8">>
    /\ new[2].critical

(***************************************************************************)
(* C9.  The diff classifies ids exactly: Added are the ids of new that are *)
(* not in old, Removed the ids of old that are not in new, Changed the ids *)
(* in both whose records differ in at least one field, parents compared as *)
(* an ordered sequence; an id in both with equal records is in none of the *)
(* three.  An id that a list carries more than once is Changed when every  *)
(* one of its old records differs from every one of its new records, and   *)
(* is not Changed when all of them are equal.                              *)
(***************************************************************************)
Computed == diff # NotComputed

IdsIn(l) == {l[i].req_id : i \in DOMAIN l}

RecordsOf(l, id) == {l[i] : i \in {i \in DOMAIN l : l[i].req_id = id}}

Differ(a, b) ==
    \/ a.req_id # b.req_id
    \/ a.description # b.description
    \/ a.critical # b.critical
    \/ a.completed # b.completed
    \/ Len(a.parents) # Len(b.parents)
    \/ \E k \in DOMAIN a.parents : a.parents[k] # b.parents[k]

AllDiffer(id) ==
    \A a \in RecordsOf(old, id), b \in RecordsOf(new, id) : Differ(a, b)

SomeDiffer(id) ==
    \E a \in RecordsOf(old, id), b \in RecordsOf(new, id) : Differ(a, b)

C10_DiffOfSelfIsEmpty ==
    (Computed /\ old = new)
        => diff.ADDED = <<>> /\ diff.REMOVED = <<>> /\ diff.CHANGED = <<>>

\* The list carries one id twice, with two different records.
C10_Witness ==
    /\ Computed
    /\ old = new
    /\ Len(old) = 2
    /\ old[1].req_id = old[2].req_id
    /\ old[1] # old[2]
    /\ diff.ADDED = <<>> /\ diff.REMOVED = <<>> /\ diff.CHANGED = <<>>

(***************************************************************************)
(* C12.  As stated: for every string s typed as the first line of the      *)
(* block "> s" / "> description", if s is ASCII-only and matches the       *)
(* identifier pattern the text parses into one requirement whose id is s,  *)
(* and otherwise parsing raises the invalid-id error.                      *)
(***************************************************************************)
AsciiOnly(s) ==
    \A i \in DOMAIN s : s[i] \notin {NonAsciiUpper, NonAsciiLower, NonAsciiDigit}

\* a letter, then letters, digits, underscores or hyphens, then a hyphen
\* and one or more digits, read from the end of s
TrailingDigits(s) ==
    Cardinality({i \in DOMAIN s : \A j \in i..Len(s) : s[j] \in Digits})

MatchesIdPattern(s) ==
    LET d == TrailingDigits(s)
    IN  /\ d >= 1
        /\ Len(s) >= d + 2
        /\ s[Len(s) - d] = "-"
        /\ IsIn(s[1], UpperCase) \/ IsIn(s[1], LowerCase)
        /\ \A i \in 2..(Len(s) - d - 1) :
               \/ IsIn(s[i], UpperCase) \/ IsIn(s[i], LowerCase)
               \/ s[i] \in Digits \cup {"_", "-"}

IdParsed == DescriptionTyped /\ parsed # NotParsed

ParsedOneWithId(s) ==
    /\ parsed.kind = "returned"
    /\ Len(parsed.value) = 1
    /\ parsed.value[1].req_id = s

\* The invalid-id error reaches the caller of parse_requirements_from_markdown
\* as the cause of a ParseError.
RaisedInvalidId ==
    /\ parsed.kind = "ParseError"
    /\ parsed.what = "Failed to parse requirement block"
    /\ parsed.cause.kind = "InvalidRequirementIdError"

NoWhitespace(s) == \A i \in DOMAIN s : s[i] \notin Whitespace

C12_WitnessInvalid ==
    /\ IdParsed
    /\ typed = <<"R", "-", NonAsciiDigit>>
    /\ RaisedInvalidId

(***************************************************************************)
(* Of the lines typed after the header, the first that the parser cannot   *)
(* accept: an unknown attribute, or a child-of line that repeats a parent  *)
(* id typed before it in the block.                                        *)
(***************************************************************************)
AttrParsed == parsed # NotParsed /\ typed # <<>> /\ typed[1].is = "header"

NamesParent(i) == typed[i].is = "child-of" /\ typed[i].value # <<>>

\* the comparison that ignores letter case and the whitespace around the id
RepeatsTrimmed(j) ==
    /\ NamesParent(j)
    /\ \E i \in 2..(j - 1) : NamesParent(i) /\ typed[i].trimmed = typed[j].trimmed

\* the comparison that ignores letter case and all whitespace
RepeatsSame(j) ==
    /\ NamesParent(j)
    /\ \E i \in 2..(j - 1) : NamesParent(i) /\ typed[i].same = typed[j].same

Unknown(j) == typed[j].is = "unknown"

FirstOf(failing) ==
    IF failing = {} THEN 0
    ELSE CHOOSE j \in failing : \A k \in failing : j <= k

FirstFailing ==
    FirstOf({j \in 2..Len(typed) : Unknown(j) \/ RepeatsTrimmed(j)})

FirstFailingSame ==
    FirstOf({j \in 2..Len(typed) : Unknown(j) \/ RepeatsSame(j)})

(***************************************************************************)
(* C13.  In a block with an accepted id and a description, when the first  *)
(* line the parser cannot accept is an unknown attribute, parsing raises   *)
(* an UnknownAttributeError, itself or as the cause of the error raised,   *)
(* that names the line and the requirement id, and returns no requirement. *)
(***************************************************************************)
IsUnknownAttributeError(e) ==
    /\ "UnknownAttributeError" \in Bases(e.kind)
    /\ e.line = strip(typed[FirstFailing].line)
    /\ e.req_id = HeaderId

C13_UnknownAttributeRaises ==
    (AttrParsed /\ FirstFailing # 0 /\ Unknown(FirstFailing)) =>
        \/ IsUnknownAttributeError(parsed)
        \/ /\ parsed.kind = "ParseError"
           /\ parsed.what = "Failed to parse requirement block"
           /\ IsUnknownAttributeError(parsed.cause)

\* What the code raises instead: a PluginError that is no parse error.
C13_RaisesPluginError ==
    (AttrParsed /\ FirstFailing # 0 /\ Unknown(FirstFailing)) =>
        parsed = UnknownAttribute(strip(typed[FirstFailing].line), HeaderId)

(***************************************************************************)
(* C14.  As stated: when the first line the parser cannot accept is a      *)
(* child-of line whose parent id equals an earlier one of the block with   *)
(* letter case and whitespace ignored, parsing raises the duplicate-parent *)
(* error naming that parent id and the requirement id; and the child-of    *)
(* lines of a block that parsed name parents that are pairwise distinct    *)
(* under that comparison.                                                  *)
(***************************************************************************)
RaisedDuplicateParent(j) ==
    /\ parsed.kind = "ParseError"
    /\ parsed.what = "Duplicate parent ID"
    /\ parsed.parent_id = typed[j].value
    /\ parsed.req_id = HeaderId

RECURSIVE ParentsTyped(_)
ParentsTyped(j) ==
    IF j > Len(typed) THEN <<>>
    ELSE IF NamesParent(j) THEN <<typed[j].value>> \o ParentsTyped(j + 1)
    ELSE ParentsTyped(j + 1)

C16_AttributesAsTyped ==
    (AttrParsed /\ FirstFailing = 0) =>
        /\ parsed.kind = "returned"
        /\ Len(parsed.value) = 1
        /\ parsed.value[1].req_id = HeaderId
        /\ parsed.value[1].description = typed[1].value
        /\ parsed.value[1].critical
               <=> \E j \in 2..Len(typed) : typed[j].is = "critical"
        /\ parsed.value[1].completed
               <=> \E j \in 2..Len(typed) : typed[j].is = "completed"
        /\ parsed.value[1].parents = ParentsTyped(2)

C16_Witness ==
    /\ AttrParsed
    /\ FirstFailing = 0
    /\ Len(typed) = 4
    /\ typed[1].value # <<"T", "e", "s", "t", ".">>
    /\ typed[2].same = "B-2"
    /\ typed[3].is = "critical" /\ Head(typed[3].line) = " "
    /\ typed[4].value = <<"a", "-", "1">>
    /\ parsed.value[1].parents = <<<<"B", "-", "2">>, <<"a", "-", "1">>>>

(***************************************************************************)
(* What a document parses to, from the record of its pieces: the           *)
(* requirements of its blocks in order, or the error of the first block    *)
(* that fails.                                                             *)
(***************************************************************************)
DocParsed == parsed # NotParsed

Are(kinds) == \A j \in DOMAIN typed : typed[j].is \in kinds

Some(kinds) == \E j \in DOMAIN typed : typed[j].is \in kinds

RECURSIVE RequirementsOf(_, _)
RequirementsOf(pieces, j) ==
    IF j > Len(pieces) THEN <<>>
    ELSE IF pieces[j].is = "requirement"
    THEN <<pieces[j].value.value>> \o RequirementsOf(pieces, j + 1)
    ELSE RequirementsOf(pieces, j + 1)

Failing == {"tabbed", "invalid-id", "bad-attribute"}

FirstFailingOf(pieces) ==
    FirstOf({j \in DOMAIN pieces : pieces[j].is \in Failing})

(***************************************************************************)
(* C15.  As stated: in a document without comments whose blocks are        *)
(* requirements or not requirement-shaped (fewer than two non-blank lines, *)
(* or a first line with any whitespace character in it, a tab included),   *)
(* parsing raises nothing and returns the requirements of the other        *)
(* blocks, in order.                                                       *)
(***************************************************************************)
C15_AsStated ==
    (DocParsed /\ Are({"requirement", "not-shaped", "tabbed"})
               /\ Some({"not-shaped", "tabbed"})) =>
        parsed = ReturnedList(RequirementsOf(typed, 1))

(***************************************************************************)
(* C15, amended.  The same where the first line has a space in it: a       *)
(* first line with a tab and no space is taken for an id.                  *)
(***************************************************************************)
C15_NotShapedIsDiscarded ==
    (DocParsed /\ Are({"requirement", "not-shaped"}) /\ Some({"not-shaped"})) =>
        parsed = ReturnedList(RequirementsOf(typed, 1))

C15_Witness ==
    /\ DocParsed
    /\ Len(typed) = 4
    /\ typed[1].is = "requirement"
    /\ typed[2].is = "not-shaped" /\ Len(split(typed[2].line)) = 3
    /\ typed[3].is = "not-shaped" /\ Len(split(typed[3].line)) > 3
    /\ typed[4].is = "requirement"
    /\ parsed.kind = "returned"
    /\ Len(parsed.value) = 2
    /\ parsed.value[1] # parsed.value[2]

(***************************************************************************)
(* C17.  As stated: in a document without comments where some block has an *)
(* invalid id and no block fails in its attributes, the parse goes on and  *)
(* returns the requirements of the other blocks.                           *)
(***************************************************************************)
C17_AsStated ==
    (DocParsed /\ Are({"requirement", "not-shaped", "invalid-id"})
               /\ Some({"invalid-id"})) =>
        parsed = ReturnedList(RequirementsOf(typed, 1))

(***************************************************************************)
(* C17, amended.  In a document without comments where some block fails,   *)
(* in its id or in its attributes, the whole parse fails with the error of *)
(* the first such block and returns no requirement; blocks that are not    *)
(* requirement-shaped are passed over.                                     *)
(***************************************************************************)
C17_FirstErrorFailsTheText ==
    (DocParsed /\ ~Some({"open", "close"}) /\ Some(Failing)) =>
        /\ Raised(parsed)
        /\ parsed = typed[FirstFailingOf(typed)].value

C17_Witness ==
    /\ DocParsed
    /\ Len(typed) = 4
    /\ typed[1].is = "requirement"
    /\ typed[2].is = "not-shaped"
    /\ typed[3].is = "invalid-id"
    /\ typed[4].is = "requirement"
    /\ parsed.kind = "ParseError"
    /\ parsed.cause.kind = "InvalidRequirementIdError"

(***************************************************************************)
(* C19.  A comment region runs from an opening marker to the nearest       *)
(* closing marker after it; a marker inside a region opens nothing, and an *)
(* opening marker with no closing marker after it opens nothing.  A        *)
(* document parses to what it parses to with the pieces of its regions     *)
(* left out: nothing in a region gives a requirement or an error, and the  *)
(* blocks outside are parsed.                                              *)
(***************************************************************************)
NextClose(pieces, j) ==
    FirstOf({k \in (j + 1)..Len(pieces) : pieces[k].is = "close"})

RECURSIVE Outside(_, _)
Outside(pieces, j) ==
    IF j > Len(pieces) THEN <<>>
    ELSE IF pieces[j].is = "open" /\ NextClose(pieces, j) # 0
    THEN Outside(pieces, NextClose(pieces, j) + 1)
    ELSE <<pieces[j]>> \o Outside(pieces, j + 1)

ExpectedOf(pieces) ==
    IF FirstFailingOf(pieces) # 0 THEN pieces[FirstFailingOf(pieces)].value
    ELSE ReturnedList(RequirementsOf(pieces, 1))

C19_CommentsAreRemoved ==
    DocParsed => parsed = ExpectedOf(Outside(typed, 1))

C19_Witness ==
    /\ DocParsed
    /\ Len(typed) = 4
    /\ typed[1].is = "open"
    /\ typed[2].is = "bad-attribute"
    /\ typed[3].is = "close"
    /\ typed[4].is = "requirement"
    /\ parsed.kind = "returned"
    /\ Len(parsed.value) = 1

(***************************************************************************)
(* C18.  When some block of some file fails to parse (invalid id, unknown  *)
(* attribute or repeated parent), parse_requirements_from_files raises a   *)
(* ParseError that names the file of the first failing block, and returns  *)
(* no list.                                                                *)
(***************************************************************************)
FilesParsed == parsed # NotParsed

FailingInFiles == {"invalid-id", "bad-attribute", "duplicate-parent"}

FirstFailingBlock ==
    FirstOf({j \in DOMAIN typed : typed[j].piece.is \in FailingInFiles})

C18_FailureNamesTheFile ==
    (FilesParsed /\ FirstFailingBlock # 0) =>
        /\ "ParseError" \in Bases(parsed.kind)
        /\ parsed.what = "Error in file"
        /\ parsed.file = typed[FirstFailingBlock].file

\* What holds: the same when the first failing block has an invalid id or
\* a repeated parent; an unknown attribute comes out as the PluginError of
\* _process_attribute_line, which names no file.
C18_ParseErrorsNameTheFile ==
    (FilesParsed /\ FirstFailingBlock # 0) =>
        IF typed[FirstFailingBlock].piece.is = "bad-attribute"
        THEN parsed = typed[FirstFailingBlock].piece.value
        ELSE parsed = ErrorInFile(typed[FirstFailingBlock].file,
                                  typed[FirstFailingBlock].piece.value)

(***************************************************************************)
(* C20.  A lock that runs after a successful init or lock on unchanged     *)
(* documents (an edit resets run) leaves the lockfile as it is, version    *)
(* tag and requirement list, and does not write it; and a lock writes the  *)
(* lockfile only when there was none or when the list stored in it differs *)
(* from the list of the blocks in the documents.                           *)
(***************************************************************************)
Succeeded ==
    /\ run.command \in {"reqsnake_init", "reqsnake_lock", "cli_lock"}
    /\ run.result = Returned

RECURSIVE BlocksOf(_, _)
BlocksOf(pages, i) ==
    IF i > Len(pages) THEN <<>>
    ELSE pages[i].content \o BlocksOf(pages, i + 1)

Stored ==
    /\ lockfile.exists
    /\ lockfile.version = __version__
    /\ Len(lockfile.requirements) = Len(BlocksOf(docs, 1))
    /\ \A k \in DOMAIN lockfile.requirements :
           LET stored == lockfile.requirements[k]
               block == BlocksOf(docs, 1)[k]
           IN  /\ stored.req_id = block.req_id
               /\ stored.description = block.description
               /\ stored.critical = block.critical
               /\ stored.completed = block.completed
               /\ stored.children = block.parents

C20_LockIsIdempotent ==
    [][/\ (Succeeded /\ (ApiLock \/ CliLock))
              => (lockfile' = lockfile /\ ~run'.wrote)
       /\ ((ApiLock \/ CliLock) /\ run'.wrote) => ~Stored]_vars

C20_Witness ==
    /\ run.command = "reqsnake_lock"
    /\ run.result = Returned
    /\ ~run.wrote
    /\ Stored
    /\ Len(lockfile.requirements) = 2


(***************************************************************************)
(* The cycles of a collection, stated on its parent links.                 *)
(***************************************************************************)
\* The ids that lie on some cycle.
OnCycle(rs) == {x \in Ids : <<x, x>> \in Ancestry(rs)}

\* The collection has exactly one cycle: the ids on a cycle reach each
\* other and each of them has one parent link that stays among them.
SingleCycle(rs) ==
    /\ OnCycle(rs) # {}
    /\ \A x, y \in OnCycle(rs) : <<x, y>> \in Ancestry(rs)
    /\ \A x \in OnCycle(rs) :
           Cardinality({l \in ParentLinks(rs) :
                           l[1] = x /\ l[2] \in OnCycle(rs)}) = 1

CycleRaised == outcome.kind = "CircularDependencyError" /\ DistinctIds(Reqs)

(***************************************************************************)
(* C21.  As stated: whenever A declares parent B and B, directly or        *)
(* transitively, declares parent A, the path of the CircularDependencyError*)
(* that validation raises contains both A and B, whatever other cycles the *)
(* collection contains.                                                    *)
(***************************************************************************)
C21_AsStated ==
    CycleRaised =>
        \A A, B \in Ids :
            (A # B /\ <<A, B>> \in ParentLinks(Reqs)
                   /\ <<B, A>> \in Ancestry(Reqs))
                => {A, B} \subseteq Range(outcome.path)

(***************************************************************************)
(* C21, amended.  When the collection has exactly one cycle, the path of   *)
(* the CircularDependencyError that validation raises contains every       *)
(* requirement of that cycle, hence both A and B for any A that declares   *)
(* parent B with B declaring, directly or transitively, parent A; also     *)
(* when other requirements are listed before A and B.                      *)
(***************************************************************************)
C21_PathHoldsTheOnlyCycle ==
    (CycleRaised /\ SingleCycle(Reqs))
        => \A A, B \in Ids :
               (A # B /\ <<A, B>> \in ParentLinks(Reqs)
                   /\ <<B, A>> \in Ancestry(Reqs))
                   => {A, B} \subseteq Range(outcome.path)

\* A requirement off the cycle is listed first and a cycle of two follows.
C21_Witness ==
    /\ CycleRaised
    /\ SingleCycle(Reqs)
    /\ Len(Reqs) = 3
    /\ Reqs[1].req_id \notin OnCycle(Reqs)
    /\ Cardinality(OnCycle(Reqs)) = 2
    /\ OnCycle(Reqs) \subseteq Range(outcome.path)


(***************************************************************************)
(* C23.  The path of the CircularDependencyError is the cycle itself: its  *)
(* first and last elements are the same id, every element lies on a cycle, *)
(* each consecutive pair is joined by a declared parent/child link, and a  *)
(* requirement that only leads into the cycle is not in the path.          *)
(***************************************************************************)
C23_PathIsTheCycle ==
    CycleRaised =>
        LET path == outcome.path
        IN  /\ Len(path) >= 2
            /\ path[1] = path[Len(path)]
            /\ Range(path) \subseteq OnCycle(Reqs)
            /\ \A k \in 1..(Len(path) - 1) :
                   \/ <<path[k + 1], path[k]>> \in ParentLinks(Reqs)
                   \/ <<path[k], path[k + 1]>> \in ParentLinks(Reqs)


(***************************************************************************)
(* The run of the cycle check over the validated collection, and chains.   *)
(***************************************************************************)
Traversal(rs) ==
    visit_every_unvisited(
        build_adj(rs, 1, <<>>), rs, 1,
        [path |-> <<>>, visiting |-> {}, visited |-> {}, raised |-> FALSE,
         depth |-> 0, deepest |-> 0])

\* A parent chain: the first record has no parent and every other record
\* declares the record before it as its only parent.
IsChain(rs) ==
    /\ DistinctIds(rs)
    /\ Len(rs) >= 2
    /\ rs[1].parents = <<>>
    /\ \A i \in 2..Len(rs) : rs[i].parents = <<rs[i - 1].req_id>>

(***************************************************************************)
(* C24.  Cycle detection is iterative: on a parent chain of N requirements *)
(* it reaches its verdict without nesting calls of the traversal, so the   *)
(* depth of nested calls stays at one whatever N is.                       *)
(***************************************************************************)
C24_NestingIsConstant ==
    (Called /\ IsChain(Reqs)) => Traversal(Reqs).deepest <= 1


(***************************************************************************)
(* C22.  When the documentation has pages and none of them holds a         *)
(* requirement block, on_nav returns the navigation it was given with no   *)
(* item added to it.                                                       *)
(***************************************************************************)
C22_EmptyDocsLeaveNavAlone ==
    (/\ run.command = "on_nav"
     /\ run.result = Returned
     /\ docs # <<>>
     /\ BlockCount(docs, 1) = 0)
        => nav_items = FreshNav


(***************************************************************************)
(* C30.  on_nav produces its output all or nothing.  If parsing or         *)
(* validation raises, no file has been appended to the file collection and *)
(* the navigation has no added item; and whenever on_nav left a generated  *)
(* file or an added navigation item, it has returned normally, the         *)
(* requirements it rendered pass every validation (distinct ids, no cycle, *)
(* no completed parent with an incomplete child), and the output is        *)
(* complete: one page per requirement, then the index, and the             *)
(* Requirements section.                                                   *)
(***************************************************************************)
C30_AllOrNothing ==
    /\ (run.command = "on_nav" /\ run.result # Returned)
           => (files = <<>> /\ nav_items = FreshNav)
    /\ (run.command = "on_nav" /\ (files # <<>> \/ nav_items # FreshNav))
           => /\ run.result = Returned
              /\ DistinctIds(run.written)
              /\ ~HasCycle(run.written)
              /\ CompletionViolations(run.written) = {}
              /\ Len(files) = Len(run.written) + 1
              /\ \A i \in DOMAIN run.written :
                     files[i] = GeneratedPage(run.written[i].req_id)
              /\ files[Len(files)] = GeneratedIndex
              /\ nav_items = Append(FreshNav, "Requirements")

\* The parse returned two requirements and the validation raised.
C30_Witness ==
    /\ run.command = "on_nav"
    /\ run.result.kind \in {"DuplicateRequirementError",
                            "CircularDependencyError",
                            "CompletionValidationError"}
    /\ BlockCount(docs, 1) = 2
    /\ files = <<>>
    /\ nav_items = FreshNav

(***************************************************************************)
(* C28.  A failed init or lock leaves the snapshot untouched: when parsing *)
(* or validation raises during init, API lock or CLI lock, the lockfile is *)
(* exactly what it was before the command started, an absent lockfile      *)
(* staying absent; and a command that changed the lockfile has returned    *)
(* normally, its parsing and validation having finished first.             *)
(***************************************************************************)
C28_FailureLeavesLockfile ==
    [][(ApiInit \/ ApiLock \/ CliLock)
           => /\ run'.result # Returned
                    => (lockfile' = lockfile /\ ~run'.wrote)
              /\ lockfile' # lockfile => run'.result = Returned]_vars

\* A lock failed in its validation over a lockfile that holds a requirement.
C28_Witness ==
    /\ run.command \in {"reqsnake_lock", "cli_lock"}
    /\ run.result.kind = "ValueError"
    /\ "what" \in DOMAIN run.result
    /\ run.result.what \in {"duplicate id", "cycle", "completion"}
    /\ lockfile.exists
    /\ Len(lockfile.requirements) >= 1


(***************************************************************************)
(* C29.  After any successful init or lock (init, API lock or CLI lock), a *)
(* check run against the unchanged documents (an edit resets run) returns  *)
(* and reports empty Added, Removed and Changed, whatever edits preceded   *)
(* the init or lock.                                                       *)
(***************************************************************************)
NoDifference == [ADDED |-> <<>>, REMOVED |-> <<>>, CHANGED |-> <<>>]

C29_CheckAfterLockIsEmpty ==
    [][(ApiCheck /\ Succeeded)
           => (run'.result = Returned /\ run'.written = NoDifference)]_vars

\* The same for the commands that run validate_requirements, init and API
\* lock.
CheckAfterApiLockIsEmpty ==
    [][(/\ ApiCheck
        /\ run.command \in {"reqsnake_init", "reqsnake_lock"}
        /\ run.result = Returned)
           => (run'.result = Returned /\ run'.written = NoDifference)]_vars


(***************************************************************************)
(* C27.  Page generation is deterministic in its inputs: two calls of      *)
(* generate on one generator instance with the same requirement return the *)
(* same content, whatever was generated on the instance before; and the    *)
(* content is that of a page generated on its own.                         *)
(***************************************************************************)
C27_GenerateIsDeterministic ==
    /\ \A a, b \in DOMAIN contents :
           contents[a].of = contents[b].of
               => contents[a].content = contents[b].content
    /\ \A a \in DOMAIN contents :
           contents[a].content =
               generate_requirement_page_content(
                   all_requirements[contents[a].of], all_requirements)


(***************************************************************************)
(* The id indexes built from the rendered collection: the dict of the      *)
(* completion validator, the dict of the diff, and the lookup the          *)
(* generator was built over.                                               *)
(***************************************************************************)
Rendered == Requirements(all_requirements)

\* The positions of the first and of the last record with the id of record i.
FirstWithIdOf(i) ==
    CHOOSE k \in DOMAIN Rendered :
        /\ Rendered[k].req_id = Rendered[i].req_id
        /\ \A j \in DOMAIN Rendered :
               Rendered[j].req_id = Rendered[i].req_id => k <= j

LastWithIdOf(i) ==
    CHOOSE k \in DOMAIN Rendered :
        /\ Rendered[k].req_id = Rendered[i].req_id
        /\ \A j \in DOMAIN Rendered :
               Rendered[j].req_id = Rendered[i].req_id => j <= k

\* Every index holds, for the id of record i, the record at position k.
IndexesKeep(i, k) ==
    LET id == Rendered[i].req_id
    IN  /\ req_dict_of(Rendered)[id] = Rendered[k]
        /\ dict_by_req_id(Rendered, 1, EmptyDict).at[id] = Rendered[k]
        /\ generator.lookup._req_map.at[id] = all_requirements[k]

(***************************************************************************)
(* C26.  As stated: whenever an id index is built from a collection in     *)
(* which two records share an id, the entry kept for the id is the first   *)
(* record in collection order, in the validators, in the diff and in the   *)
(* lookup used for rendering.                                              *)
(***************************************************************************)
C26_AsStated ==
    generator.kind = "RequirementPageGenerator"
        => \A i \in DOMAIN Rendered : IndexesKeep(i, FirstWithIdOf(i))

\* What the indexes hold instead: for every id, the record listed last.
LastOccurrenceIsKept ==
    generator.kind = "RequirementPageGenerator"
        => \A i \in DOMAIN Rendered : IndexesKeep(i, LastWithIdOf(i))

(***************************************************************************)
(* C25.  Saving the lockfile is atomic: at every step of every save, also  *)
(* when a process is killed between two of its steps and when other saves  *)
(* and a reader run at the same time, reqsnake.lock changes only by the    *)
(* rename of a closed temporary file and then holds the whole content of   *)
(* that save; before and after, it is absent or holds the whole content of *)
(* one finished save, and so does what a reader read.                      *)
(***************************************************************************)
WholeSave(c) ==
    \E p \in Savers : /\ saves[p].at = "done"
                      /\ c = _save_lockfile(saves[p].requirements)

C25_SaveIsAtomic ==
    [][/\ lockfile' # lockfile
           => \E p \in Savers : /\ saves[p].at = "closed"
                                /\ saves'[p].at = "done"
                                /\ lockfile' = _save_lockfile(saves[p].requirements)
       /\ (lockfile' = NoLockfile \/ WholeSave(lockfile)')
       /\ (observed'.at = "read" => WholeSave(observed.got)')]_vars

\* One save was killed with its temporary file cut short, a second save
\* replaced the lockfile a first save had written, and a reader that had
\* opened the first file read it whole after the replace.
C25_Witness ==
    \E p, q, k \in Savers :
        /\ saves[p].at = "done" /\ saves[q].at = "done" /\ p # q
        /\ linked = q
        /\ lockfile = _save_lockfile(saves[q].requirements)
        /\ saves[p].requirements # saves[q].requirements
        /\ observed.at = "read" /\ observed.inode = p
        /\ observed.got = _save_lockfile(saves[p].requirements)
        /\ saves[k].at = "killed"
        /\ saves[k].written \in 1..Len(saves[k].requirements) + 1

=============================================================================
